---------------------------- MODULE Spec2Model ----------------------------
(***************************************************************************)
(* Model of the genre organizer of emul8-tools                             *)
(* (src/rom_management/organize by genre/sort_by_genre.py).                *)
(*                                                                         *)
(* Strings are sequences of one-character strings, so that the string      *)
(* operations of the program (strip, lower, replace, re.sub, slicing) are  *)
(* computed character by character as Python computes them.                *)
(***************************************************************************)
EXTENDS Integers, Sequences, FiniteSets, TLC

(***************************************************************************)
(* Characters and the str / re primitives the program uses.                *)
(***************************************************************************)
UpperChars == << "A", "B", "C", "D", "E", "F", "G", "H", "I", "J", "K", "L", "M",
                 "N", "O", "P", "Q", "R", "S", "T", "U", "V", "W", "X", "Y", "Z" >>

LowerChars == << "a", "b", "c", "d", "e", "f", "g", "h", "i", "j", "k", "l", "m",
                 "n", "o", "p", "q", "r", "s", "t", "u", "v", "w", "x", "y", "z" >>

Digits == { "0", "1", "2", "3", "4", "5", "6", "7", "8", "9" }

UpperSet == { UpperChars[i] : i \in 1..Len(UpperChars) }

LowerSet == { LowerChars[i] : i \in 1..Len(LowerChars) }

\* str.isspace / the regex class \s, restricted to the blanks of the model
IsSpace(c) == c \in { " ", "\t" }

\* the regex class \w
IsWord(c) == c \in UpperSet \cup LowerSet \cup Digits \cup { "_" }

LowerMap == [ c \in UpperSet |-> LowerChars[CHOOSE i \in 1..Len(UpperChars) : UpperChars[i] = c] ]

LowerChar(c) == IF c \in UpperSet THEN LowerMap[c] ELSE c

\* str.lower()
Lower(s) == [ i \in 1..Len(s) |-> LowerChar(s[i]) ]

SetMin(S) == CHOOSE x \in S : \A y \in S : x <= y

SetMax(S) == CHOOSE x \in S : \A y \in S : y <= x

\* str.strip()
Strip(s) ==
    LET idx == { i \in 1..Len(s) : ~IsSpace(s[i]) }
    IN  IF idx = {} THEN << >> ELSE SubSeq(s, SetMin(idx), SetMax(idx))

RECURSIVE CollapseFrom(_, _)
CollapseFrom(s, i) ==
    IF i > Len(s) THEN << >>
    ELSE IF IsSpace(s[i])
         THEN (IF i > 1 /\ IsSpace(s[i - 1]) THEN << >> ELSE << " " >>)
              \o CollapseFrom(s, i + 1)
         ELSE << s[i] >> \o CollapseFrom(s, i + 1)

\* re.sub(r'\s+', ' ', s)
CollapseWS(s) == CollapseFrom(s, 1)

\* s[i:i+len(pat)] == pat (1-based i)
MatchAt(s, pat, i) ==
    /\ i + Len(pat) - 1 <= Len(s)
    /\ SubSeq(s, i, i + Len(pat) - 1) = pat

\* pat in s
Contains(s, pat) ==
    \/ Len(pat) = 0
    \/ \E i \in 1..(Len(s) - Len(pat) + 1) : MatchAt(s, pat, i)

RECURSIVE ReplaceFrom(_, _, _, _)
ReplaceFrom(s, pat, rep, i) ==
    IF i > Len(s) THEN << >>
    ELSE IF MatchAt(s, pat, i)
         THEN rep \o ReplaceFrom(s, pat, rep, i + Len(pat))
         ELSE << s[i] >> \o ReplaceFrom(s, pat, rep, i + 1)

\* s.replace(pat, rep), pat not empty: leftmost non-overlapping occurrences
Replace(s, pat, rep) == ReplaceFrom(s, pat, rep, 1)

StartsWith(s, pre) == MatchAt(s, pre, 1)

EndsWith(s, suf) == Len(suf) <= Len(s) /\ SubSeq(s, Len(s) - Len(suf) + 1, Len(s)) = suf

RECURSIVE RemoveDelimFrom(_, _, _, _)
RemoveDelimFrom(s, open, close, i) ==
    IF i > Len(s) THEN << >>
    ELSE IF s[i] = open /\ \E j \in (i + 1)..Len(s) : s[j] = close
         THEN RemoveDelimFrom(s, open, close,
                  SetMin({ j \in (i + 1)..Len(s) : s[j] = close }) + 1)
         ELSE << s[i] >> \o RemoveDelimFrom(s, open, close, i + 1)

\* re.sub(r'\([^)]*\)', '', s) and re.sub(r'\[[^\]]*\]', '', s)
RemoveDelim(s, open, close) == RemoveDelimFrom(s, open, close, 1)

\* re.sub(r'[^\w\s]', ' ', s)
NoPunct(s) == [ i \in 1..Len(s) |-> IF IsWord(s[i]) \/ IsSpace(s[i]) THEN s[i] ELSE " " ]

\* t fully matches \s*\d+\s*
IsEndNums(t) ==
    \E a \in 1..Len(t) : \E b \in a..Len(t) :
        /\ \A i \in 1..(a - 1) : IsSpace(t[i])
        /\ \A i \in a..b : t[i] \in Digits
        /\ \A i \in (b + 1)..Len(t) : IsSpace(t[i])

\* re.sub(r'\s*\d+\s*$', '', s): the leftmost suffix that matches is removed
NoEndNums(s) ==
    LET starts == { i \in 1..Len(s) : IsEndNums(SubSeq(s, i, Len(s))) }
    IN  IF starts = {} THEN s ELSE SubSeq(s, 1, SetMin(starts) - 1)

(***************************************************************************)
(* create_ultra_aggressive_variations: the Variation Generator.            *)
(***************************************************************************)
Separators ==
    << << "_" >>, << "-" >>, << "." >>, << "+" >>, << "&" >>, << "'" >>,
       << "!" >>, << "?" >>, << ":" >>, << ";" >>, << " ", "-", " " >> >>

RomanConversions ==
    << << << " ", "I", "I" >>, << " ", "2" >> >>,
       << << " ", "I", "I", "I" >>, << " ", "3" >> >>,
       << << " ", "I", "V" >>, << " ", "4" >> >>,
       << << " ", "V" >>, << " ", "5" >> >>,
       << << "I", "I", " " >>, << "2", " " >> >>,
       << << "I", "I", "I", " " >>, << "3", " " >> >>,
       << << "I", "V", " " >>, << "4", " " >> >>,
       << << "V", " " >>, << "5", " " >> >>,
       << << "I", "I" >>, << "2" >> >>,
       << << "I", "I", "I" >>, << "3" >> >>,
       << << "I", "V" >>, << "4" >> >>,
       << << "V" >>, << "5" >> >> >>

Abbreviations ==
    << << << "D", "r", "." >>, << "D", "o", "c", "t", "o", "r" >> >>,
       << << "M", "r", "." >>, << "M", "i", "s", "t", "e", "r" >> >>,
       << << "B", "r", "o", "s", "." >>, << "B", "r", "o", "t", "h", "e", "r", "s" >> >>,
       << << "C", "o", "." >>, << "C", "o", "m", "p", "a", "n", "y" >> >>,
       << << "&" >>, << "a", "n", "d" >> >>,
       << << "v", "s", "." >>, << "v", "e", "r", "s", "u", "s" >> >>,
       << << "v", "s" >>, << "v", "e", "r", "s", "u", "s" >> >> >>

\* the seed and Step 1: the name, its lowercase, and the name without (...) and [...]
\* a first step that does not add the lowercase form
WithoutLowercase(name) == { Strip(name) }

BaseVariations(name) ==
    LET original == Strip(name)
        c1 == CollapseWS(Strip(RemoveDelim(original, "(", ")")))
        cur1 == IF c1 # << >> THEN c1 ELSE original
        c2 == CollapseWS(Strip(RemoveDelim(cur1, "[", "]")))
    IN  { original, Lower(original) }
        \cup (IF c1 # << >> THEN { c1, Lower(c1) } ELSE {})
        \cup (IF c2 # << >> THEN { c2, Lower(c2) } ELSE {})

\* Step 2: each separator present replaced by a space, and deleted
SeparatorVariants(V) ==
    UNION { LET sep == Separators[k]
                with_space == Strip(CollapseWS(Replace(v, sep, << " " >>)))
                without_sep == Strip(CollapseWS(Replace(v, sep, << >>)))
            IN  IF Contains(v, sep)
                THEN { with_space, Lower(with_space), without_sep, Lower(without_sep) }
                ELSE {}
            : v \in V, k \in 1..Len(Separators) }

\* Step 3: the article "The" at the beginning or at the end
ArticleVariants(V) ==
    UNION { (IF StartsWith(Lower(v), << "t", "h", "e", " " >>)
             THEN LET without_the == Strip(SubSeq(v, 5, Len(v)))
                      with_comma == without_the \o << ",", " ", "T", "h", "e" >>
                  IN  { without_the, Lower(without_the), with_comma, Lower(with_comma) }
             ELSE {})
            \cup
            (IF EndsWith(Lower(v), << ",", " ", "t", "h", "e" >>)
             THEN LET without_the == Strip(SubSeq(v, 1, Len(v) - 5))
                      with_the == << "T", "h", "e", " " >> \o without_the
                  IN  { without_the, Lower(without_the), with_the, Lower(with_the) }
             ELSE {})
            : v \in V }

\* Step 4: punctuation replaced by blanks
PunctVariants(V) ==
    UNION { LET no_punct == Strip(CollapseWS(NoPunct(v)))
            IN  IF no_punct # << >> THEN { no_punct, Lower(no_punct) } ELSE {}
            : v \in V }

\* Step 5: roman numerals to arabic, and the number at the end removed
NumberVariants(V) ==
    UNION { UNION { LET roman == RomanConversions[k][1]
                        arabic == RomanConversions[k][2]
                        converted == Replace(v, roman, arabic)
                    IN  IF Contains(Lower(v), Lower(roman))
                        THEN { converted, Lower(converted) }
                        ELSE {}
                    : k \in 1..Len(RomanConversions) }
            \cup
            (LET no_end_nums == Strip(NoEndNums(v))
             IN  IF no_end_nums # v THEN { no_end_nums, Lower(no_end_nums) } ELSE {})
            : v \in V }

\* Step 6: abbreviations expanded and expansions abbreviated
AbbrevVariants(V) ==
    UNION { LET abbrev == Abbreviations[k][1]
                expansion == Abbreviations[k][2]
                expanded == Replace(v, abbrev, expansion)
                abbreviated == Replace(v, expansion, abbrev)
            IN  (IF Contains(Lower(v), Lower(abbrev))
                 THEN { expanded, Lower(expanded) } ELSE {})
                \cup
                (IF Contains(Lower(v), Lower(expansion))
                 THEN { abbreviated, Lower(abbreviated) } ELSE {})
            : v \in V, k \in 1..Len(Abbreviations) }

\* the set `variations` when the clean-up loop starts
RawVariations(name) ==
    LET v1 == BaseVariations(name)
        v2 == v1 \cup SeparatorVariants(v1)
        v3 == v2 \cup ArticleVariants(v2)
        v4 == v3 \cup PunctVariants(v3)
        v5 == v4 \cup NumberVariants(v4)
    IN  v5 \cup AbbrevVariants(v5)

(***************************************************************************)
(* The iteration order of a Python set of str.  CPython orders a set by    *)
(* the hash of its members, and the hash of a str is keyed by a seed drawn *)
(* when the process starts (PYTHONHASHSEED): the order is fixed within one *)
(* process and differs between processes.  hash_seed stands for that seed. *)
(***************************************************************************)
CharTable ==
    << "\t", " ", "!", "&", "'", "(", ")", "*", "+", ",", "-", ".", "/",
       "0", "1", "2", "3", "4", "5", "6", "7", "8", "9", ":", ";", "<", ">", "?",
       "\"", "\\" >>
    \o UpperChars \o << "[", "]", "_" >> \o LowerChars \o << "|" >>

CharCode(c) == CHOOSE i \in 1..Len(CharTable) : CharTable[i] = c

RECURSIVE HashFrom(_, _, _)
HashFrom(s, i, h) ==
    IF i > Len(s) THEN h
    ELSE HashFrom(s, i + 1, (h * 31 + CharCode(s[i])) % 1021)

\* hash(s) under the process's seed
StrHash(s, hash_seed) == HashFrom(s, 1, (hash_seed * 205 + 7) % 1021)

RECURSIVE LexLess(_, _)
LexLess(a, b) ==
    IF Len(b) = 0 THEN FALSE
    ELSE IF Len(a) = 0 THEN TRUE
    ELSE IF a[1] # b[1] THEN CharCode(a[1]) < CharCode(b[1])
    ELSE LexLess(Tail(a), Tail(b))

\* a is met before b when the set is iterated
Before(a, b, hash_seed) ==
    \/ StrHash(a, hash_seed) < StrHash(b, hash_seed)
    \/ StrHash(a, hash_seed) = StrHash(b, hash_seed) /\ LexLess(a, b)

RECURSIVE IterOrder(_, _)
\* list(S) / for x in S, for a set S of str
IterOrder(S, hash_seed) ==
    IF S = {} THEN << >>
    ELSE LET first == CHOOSE x \in S : \A y \in S \ { x } : Before(x, y, hash_seed)
         IN  << first >> \o IterOrder(S \ { first }, hash_seed)

\* the elements of seq that occur nowhere earlier in seq, in order
RECURSIVE FirstOccurrences(_, _)
FirstOccurrences(seq, i) ==
    IF i > Len(seq) THEN << >>
    ELSE (IF \E j \in 1..(i - 1) : seq[j] = seq[i] THEN << >> ELSE << seq[i] >>)
         \o FirstOccurrences(seq, i + 1)

\* a clean-up that returns the set as it is iterated
KeepAll(raw, hash_seed) == IterOrder(raw, hash_seed)

\* the clean-up loop: final_variations
CleanVariations(raw, hash_seed) ==
    LET order == IterOrder(raw, hash_seed)
        kept == SelectSeq(order, LAMBDA var : var # << >> /\ Len(Strip(var)) > 1)
        cleaned == [ i \in 1..Len(kept) |-> CollapseWS(Strip(kept[i])) ]
    IN  FirstOccurrences(cleaned, 1)

create_ultra_aggressive_variations(name, hash_seed) ==
    CleanVariations(RawVariations(name), hash_seed)

(***************************************************************************)
(* config.py, clean_filename, pathlib names, similarity.                   *)
(***************************************************************************)
TRIM_FILENAME_LENGTH == 32

REMOVE_SPECIAL_CHARS == TRUE

\* Python's None where a str is expected (no str of the model equals it)
None == << "None" >>

\* s[:n]
SliceTo(s, n) ==
    IF n >= 0 THEN SubSeq(s, 1, IF n < Len(s) THEN n ELSE Len(s))
    ELSE SubSeq(s, 1, IF Len(s) + n > 0 THEN Len(s) + n ELSE 0)

\* the index of the last c in s, 0 when there is none
LastIndexOf(s, c) ==
    LET idx == { i \in 1..Len(s) : s[i] = c }
    IN  IF idx = {} THEN 0 ELSE SetMax(idx)

\* a cleaner that cuts the whole name, extension included
clean_cut(filename, max_length) ==
    IF max_length # 0 THEN Strip(SliceTo(filename, max_length)) ELSE Strip(filename)

\* max_length = 0 stands for max_length=None (both are falsy)
clean_filename(filename, max_length) ==
    LET f1 == IF REMOVE_SPECIAL_CHARS
              THEN SelectSeq(filename,
                       LAMBDA c : c \notin { "<", ">", ":", "\"", "/", "\\", "|", "?", "*" })
              ELSE filename
        f2 == IF REMOVE_SPECIAL_CHARS
              THEN SelectSeq(f1, LAMBDA c : IsWord(c) \/ IsSpace(c) \/ c \in { "-", "_", "." })
              ELSE f1
        dot == LastIndexOf(f2, ".")
        name_part == IF dot > 0 THEN SubSeq(f2, 1, dot - 1) ELSE f2
        ext_part == IF dot > 0 THEN SubSeq(f2, dot, Len(f2)) ELSE << >>
        available_length == max_length - Len(ext_part)
        f3 == IF max_length # 0 /\ Len(f2) > max_length
              THEN SliceTo(name_part, available_length) \o ext_part
              ELSE f2
    IN  Strip(f3)

\* pathlib: PurePath.stem of a file name
Stem(name) ==
    LET dot == LastIndexOf(name, ".")
    IN  IF 0 < dot - 1 /\ dot < Len(name) THEN SubSeq(name, 1, dot - 1) ELSE name

\* difflib.SequenceMatcher.find_longest_match on a[alo..ahi], b[blo..bhi]
\* (1-based, inclusive): the longest common block, the earliest in a, then in b
LongestMatch(a, alo, ahi, b, blo, bhi) ==
    LET blocks == { << i, j, k >> \in (alo..ahi) \X (blo..bhi) \X (1..(ahi - alo + 1)) :
                       /\ i + k - 1 <= ahi
                       /\ j + k - 1 <= bhi
                       /\ SubSeq(a, i, i + k - 1) = SubSeq(b, j, j + k - 1) }
    IN  IF blocks = {} THEN << alo, blo, 0 >>
        ELSE CHOOSE m \in blocks : \A n \in blocks :
                 \/ m[3] > n[3]
                 \/ m[3] = n[3] /\ m[1] < n[1]
                 \/ m[3] = n[3] /\ m[1] = n[1] /\ m[2] <= n[2]

RECURSIVE MatchingChars(_, _, _, _, _, _)
\* the total size of SequenceMatcher.get_matching_blocks()
MatchingChars(a, alo, ahi, b, blo, bhi) ==
    IF alo > ahi \/ blo > bhi THEN 0
    ELSE LET m == LongestMatch(a, alo, ahi, b, blo, bhi)
         IN  IF m[3] = 0 THEN 0
             ELSE m[3]
                  + MatchingChars(a, alo, m[1] - 1, b, blo, m[2] - 1)
                  + MatchingChars(a, m[1] + m[3], ahi, b, m[2] + m[3], bhi)

\* similarity(a, b) as the fraction << 2 * matches, len(a) + len(b) >>;
\* ratio() is 1.0 when both strings are empty
similarity(a, b) ==
    LET la == Lower(a)
        lb == Lower(b)
    IN  IF Len(la) + Len(lb) = 0 THEN << 1, 1 >>
        ELSE << 2 * MatchingChars(la, 1, Len(la), lb, 1, Len(lb)), Len(la) + Len(lb) >>

\* fractions with positive denominators
FracGreater(x, y) == x[1] * y[2] > y[1] * x[2]

\* x >= n / 100
FracAtLeast(x, n) == x[1] * 100 >= n * x[2]

(***************************************************************************)
(* enhanced_xml_parsing: the Catalog Loader.                               *)
(*                                                                         *)
(* A catalog source is a sequence of <game> elements, each with the value  *)
(* of its name attribute, the text of its <name> child and the text of its *)
(* <genre> child (None where absent; an empty text is None as well, as in  *)
(* ElementTree).  rom_metadata is a dict: a sequence of << key, entry >>   *)
(* pairs in insertion order, with no key twice.                            *)
(***************************************************************************)
MAX_STORED_VARIATIONS == 50

RegionPatterns ==
    << << "(", "U", "S", "A", ",", " ", "E", "u", "r", "o", "p", "e", ")" >>,
       << "(", "U", "S", "A", ")" >>,
       << "(", "E", "u", "r", "o", "p", "e", ")" >>,
       << "(", "J", "a", "p", "a", "n", ")" >>,
       << "(", "W", "o", "r", "l", "d", ")" >>,
       << "(", "U", ")" >>, << "(", "E", ")" >>, << "(", "J", ")" >>, << "(", "W", ")" >>,
       << "(", "B", "e", "t", "a", ")" >>,
       << "(", "A", "l", "p", "h", "a", ")" >>,
       << "(", "D", "e", "m", "o", ")" >>,
       << "(", "P", "r", "o", "t", "o", ")" >>,
       << "(", "P", "r", "o", "t", "o", "t", "y", "p", "e", ")" >>,
       << "(", "U", "n", "l", ")" >>,
       << "(", "U", "n", "l", "i", "c", "e", "n", "s", "e", "d", ")" >> >>

RECURSIVE RemoveIgnoreCaseFrom(_, _, _)
RemoveIgnoreCaseFrom(s, pat, i) ==
    IF i > Len(s) THEN << >>
    ELSE IF i + Len(pat) - 1 <= Len(s) /\ Lower(SubSeq(s, i, i + Len(pat) - 1)) = Lower(pat)
         THEN RemoveIgnoreCaseFrom(s, pat, i + Len(pat))
         ELSE << s[i] >> \o RemoveIgnoreCaseFrom(s, pat, i + 1)

RECURSIVE StripRegions(_, _)
\* the loop over region_patterns, from pattern k on
\* (the test on `cleaned` makes TLC evaluate it before the next round, as
\* the loop does, instead of passing it on unevaluated)
StripRegions(clean_base_name, k) ==
    IF k > Len(RegionPatterns) THEN clean_base_name
    ELSE LET cleaned == CollapseWS(Strip(
                            RemoveIgnoreCaseFrom(clean_base_name, RegionPatterns[k], 1)))
         IN  IF cleaned = << >> THEN << >> ELSE StripRegions(cleaned, k + 1)

\* name = attribute, else the text of <name>
GameName(game) == IF game.attr_name # None THEN game.attr_name ELSE game.elem_name

Unknown == << "U", "n", "k", "n", "o", "w", "n" >>

\* the part of s before its first "/"
BeforeSlash(s) ==
    LET idx == { i \in 1..Len(s) : s[i] = "/" }
    IN  IF idx = {} THEN s ELSE SubSeq(s, 1, SetMin(idx) - 1)

\* the genre field as it stands, not cut at the slash
WholeGenre(game) == IF game.genre_text # None THEN Strip(game.genre_text) ELSE Unknown

\* genre_elem.text counts when it is neither None nor the empty string
HasGenreText(game) == game.genre_text # None /\ game.genre_text # << >>

GameGenre(game) ==
    LET genre == IF HasGenreText(game) THEN Strip(game.genre_text) ELSE Unknown
    IN  IF Contains(genre, << "/" >>) THEN Strip(BeforeSlash(genre)) ELSE genre

\* an entry that carries the tag-stripped name as its original name
CleanNamedEntry(game) ==
    LET name == Strip(GameName(game))
    IN  [ original_name |-> StripRegions(name, 1),
          clean_name |-> StripRegions(name, 1),
          genre |-> GameGenre(game),
          full_genre |-> IF HasGenreText(game)
                         THEN Strip(game.genre_text) ELSE GameGenre(game) ]

\* the dict entry stored for every retained variation of a game
GameEntry(game) ==
    LET name == Strip(GameName(game))
    IN  [ original_name |-> name,
          clean_name |-> StripRegions(name, 1),
          genre |-> GameGenre(game),
          full_genre |-> IF HasGenreText(game)
                         THEN Strip(game.genre_text) ELSE GameGenre(game) ]

\* a variation list with the clean name put last
CleanNameLast(game, hash_seed) ==
    LET name == Strip(GameName(game))
        clean_base_name == StripRegions(name, 1)
        variations == create_ultra_aggressive_variations(name, hash_seed)
    IN  IF clean_base_name # << >> /\ clean_base_name # name
        THEN variations \o << clean_base_name, Lower(clean_base_name) >>
        ELSE variations

\* the variation list of a game, clean name first when it differs
GameVariations(game, hash_seed) ==
    LET name == Strip(GameName(game))
        clean_base_name == StripRegions(name, 1)
        variations == create_ultra_aggressive_variations(name, hash_seed)
    IN  IF clean_base_name # << >> /\ clean_base_name # name
        THEN << clean_base_name, Lower(clean_base_name) >> \o variations
        ELSE variations

HasKey(metadata, key) == \E i \in 1..Len(metadata) : metadata[i][1] = key

\* metadata[key]
MetaGet(metadata, key) ==
    metadata[CHOOSE i \in 1..Len(metadata) : metadata[i][1] = key][2]

\* a store that leaves a key that is already there as it is
MetaPutFirst(metadata, key, entry) ==
    IF HasKey(metadata, key) THEN metadata ELSE Append(metadata, << key, entry >>)

\* metadata[key] = entry: a new key goes last, an old key keeps its place
MetaPut(metadata, key, entry) ==
    IF HasKey(metadata, key)
    THEN [ i \in 1..Len(metadata) |->
             IF metadata[i][1] = key THEN << key, entry >> ELSE metadata[i] ]
    ELSE Append(metadata, << key, entry >>)

RECURSIVE StoreVariations(_, _, _, _)
\* for variation in variations[:50]: rom_metadata[variation] = entry
StoreVariations(metadata, variations, entry, k) ==
    IF k > Len(variations) \/ k > MAX_STORED_VARIATIONS THEN metadata
    ELSE LET stored == IF variations[k] # << >> /\ Len(Strip(variations[k])) > 1
                       THEN MetaPut(metadata, variations[k], entry) ELSE metadata
         IN  IF stored = << >>
             THEN StoreVariations(<< >>, variations, entry, k + 1)
             ELSE StoreVariations(stored, variations, entry, k + 1)

RECURSIVE LoadGames(_, _, _, _)
\* the loop over the <game> elements, from element k on;
\* acc = << rom_metadata, xml_name_list >>
LoadGames(games, k, acc, hash_seed) ==
    IF k > Len(games) THEN acc
    ELSE LET game == games[k]
         IN  IF GameName(game) = None \/ GameName(game) = << >>
             THEN LoadGames(games, k + 1, acc, hash_seed)
             ELSE LET stored == StoreVariations(acc[1], GameVariations(game, hash_seed),
                                                GameEntry(game), 1)
                      names == Append(acc[2], Strip(GameName(game)))
                  IN  IF stored = << >>
                      THEN LoadGames(games, k + 1, << << >>, names >>, hash_seed)
                      ELSE LoadGames(games, k + 1, << stored, names >>, hash_seed)

(***************************************************************************)
(* hyper_aggressive_rom_matching: the Matcher.  Each strategy yields the   *)
(* entry it returns, or NoEntry when the code falls through to the next.   *)
(***************************************************************************)
NoEntry == [ original_name |-> None, clean_name |-> None, genre |-> None, full_genre |-> None ]

\* the first element of seq that satisfies Test, as a one-element sequence
FirstWhere(seq, Test(_)) ==
    LET idx == { i \in 1..Len(seq) : Test(seq[i]) }
    IN  IF idx = {} THEN << >> ELSE << seq[SetMin(idx)] >>

\* for meta_key, meta_data in metadata.items(): if meta_data['original_name'] == xml_name
EntryNamed(metadata, xml_name) ==
    LET hit == FirstWhere(metadata, LAMBDA kv : kv[2].original_name = xml_name)
    IN  IF hit = << >> THEN NoEntry ELSE hit[1][2]

\* Strategy 1: a variation that is a key
DirectMatch(rom_variations, metadata) ==
    LET hit == FirstWhere(rom_variations, LAMBDA v : HasKey(metadata, v))
    IN  IF hit = << >> THEN NoEntry ELSE MetaGet(metadata, hit[1])

\* Strategy 2: a variation equal to a key but for case
CaseMatch(rom_variations, metadata) ==
    LET CaseKey(v) == FirstWhere(metadata, LAMBDA kv : Lower(v) = Lower(kv[1]))
        hit == FirstWhere(rom_variations, LAMBDA v : CaseKey(v) # << >>)
    IN  IF hit = << >> THEN NoEntry ELSE CaseKey(hit[1])[1][2]

\* strategy 3 with the threshold at half the length of the key
HalfSubstringMatch(rom_name, rom_variations, metadata) ==
    LET SubKey(v) ==
            IF Len(v) >= 4
            THEN FirstWhere(metadata,
                     LAMBDA kv : /\ Contains(Lower(kv[1]), Lower(v))
                                 /\ Len(v) * 10 >= Len(kv[1]) * 5)
            ELSE << >>
        hit == FirstWhere(rom_variations, LAMBDA v : SubKey(v) # << >>)
    IN  IF Len(rom_name) <= 12 /\ hit # << >> THEN SubKey(hit[1])[1][2] ELSE NoEntry

\* Strategy 3: a variation contained in a key, for short ROM names
SubstringMatch(rom_name, rom_variations, metadata) ==
    LET SubKey(v) ==
            IF Len(v) >= 4
            THEN FirstWhere(metadata,
                     LAMBDA kv : /\ Contains(Lower(kv[1]), Lower(v))
                                 /\ Len(v) * 10 >= Len(kv[1]) * 6)
            ELSE << >>
        hit == FirstWhere(rom_variations, LAMBDA v : SubKey(v) # << >>)
    IN  IF Len(rom_name) <= 12 /\ hit # << >> THEN SubKey(hit[1])[1][2] ELSE NoEntry

RECURSIVE LastBestSimilarity(_, _, _, _)
\* the loop of strategy 4 with a later pair taking the place of an equal one
LastBestSimilarity(pairs, k, best, threshold) ==
    IF k > Len(pairs) THEN best
    ELSE LET score == similarity(pairs[k][1], pairs[k][2])
         IN  LastBestSimilarity(pairs, k + 1,
                 IF ~FracGreater(best[2], score) /\ FracAtLeast(score, threshold)
                 THEN << pairs[k][2], score >> ELSE best,
                 threshold)

RECURSIVE BestSimilarity(_, _, _, _)
\* the two loops of strategy 4 over the pairs << rom_var, xml_name >>, from pair k on;
\* best = << best_match, best_score >>
BestSimilarity(pairs, k, best, threshold) ==
    IF k > Len(pairs) THEN best
    ELSE LET score == similarity(pairs[k][1], pairs[k][2])
         IN  BestSimilarity(pairs, k + 1,
                 IF FracGreater(score, best[2]) /\ FracAtLeast(score, threshold)
                 THEN << pairs[k][2], score >> ELSE best,
                 threshold)

\* the pairs of strategy 4 in loop order
SimilarityPairs(rom_variations, xml_names) ==
    LET vars == SliceTo(rom_variations, 15)
        names == SliceTo(xml_names, 300)
    IN  [ p \in 1..(Len(vars) * Len(names)) |->
            << vars[((p - 1) \div Len(names)) + 1], names[((p - 1) % Len(names)) + 1] >> ]

\* Strategy 4: the most similar catalog name, at 0.70 or more
SimilarityMatch(rom_variations, metadata, xml_names) ==
    LET best == BestSimilarity(SimilarityPairs(rom_variations, xml_names), 1,
                               << None, << 0, 1 >> >>, 70)
    IN  IF best[1] # None /\ best[1] # << >> THEN EntryNamed(metadata, best[1]) ELSE NoEntry

RECURSIVE SplitWords(_, _, _)
\* s.split(): the words of s from position i on, cur being the word under way
SplitWords(s, i, cur) ==
    IF i > Len(s) THEN (IF cur = << >> THEN {} ELSE { cur })
    ELSE IF IsSpace(s[i])
         THEN (IF cur = << >> THEN {} ELSE { cur }) \cup SplitWords(s, i + 1, << >>)
         ELSE SplitWords(s, i + 1, Append(cur, s[i]))

\* the words of more than two characters of s, punctuation apart
KeyWords(s) == { w \in SplitWords(NoPunct(s), 1, << >>) : Len(w) > 2 }

\* re.sub(r'\([^)]*\)', '', xml_name).strip().lower()
XmlClean(xml_name) == Lower(Strip(RemoveDelim(xml_name, "(", ")")))

\* Strategy 5: half of the words of either name in common
WordMatch(rom_name, metadata, xml_names) ==
    LET rom_words == KeyWords(Lower(rom_name))
        Accepts(xml_name) ==
            LET xml_words == KeyWords(XmlClean(xml_name))
                common_words == rom_words \cap xml_words
            IN  /\ Cardinality(xml_words) >= 1
                /\ Cardinality(common_words) >= 1
                /\ \/ Cardinality(common_words) * 2 >= Cardinality(rom_words)
                   \/ Cardinality(common_words) * 2 >= Cardinality(xml_words)
                /\ EntryNamed(metadata, xml_name) # NoEntry
        hit == FirstWhere(SliceTo(xml_names, 500), Accepts)
    IN  IF Cardinality(rom_words) >= 1 /\ hit # << >>
        THEN EntryNamed(metadata, hit[1]) ELSE NoEntry

\* Strategy 6: the single word of the ROM name inside a catalog name
SingleWordMatch(rom_name, metadata, xml_names) ==
    LET rom_words == KeyWords(Lower(rom_name))
        rom_word == CHOOSE w \in rom_words : TRUE
        Accepts(xml_name) ==
            LET xml_clean == XmlClean(xml_name)
                clean_length == Len(SelectSeq(xml_clean, LAMBDA c : c # " "))
            IN  /\ Contains(xml_clean, rom_word)
                /\ Len(rom_word) * 10 >= clean_length * 3
                /\ EntryNamed(metadata, xml_name) # NoEntry
        hit == IF Cardinality(rom_words) = 1 /\ Len(rom_word) >= 4
               THEN FirstWhere(SliceTo(xml_names, 200), Accepts) ELSE << >>
    IN  IF hit # << >> THEN EntryNamed(metadata, hit[1]) ELSE NoEntry

\* a cascade that tries the similarity strategy before the key lookups
SimilarityFirst(rom_name, rom_variations, metadata, xml_names) ==
    IF SimilarityMatch(rom_variations, metadata, xml_names) # NoEntry
    THEN [ strategy |-> 4, entry |-> SimilarityMatch(rom_variations, metadata, xml_names) ]
    ELSE IF DirectMatch(rom_variations, metadata) # NoEntry
    THEN [ strategy |-> 1, entry |-> DirectMatch(rom_variations, metadata) ]
    ELSE [ strategy |-> 0, entry |-> NoEntry ]

\* the strategy that returns (0: none does) and the entry it returns
MatchCascade(rom_name, rom_variations, metadata, xml_names) ==
    LET s1 == DirectMatch(rom_variations, metadata)
        s2 == CaseMatch(rom_variations, metadata)
        s3 == SubstringMatch(rom_name, rom_variations, metadata)
        s4 == SimilarityMatch(rom_variations, metadata, xml_names)
        s5 == WordMatch(rom_name, metadata, xml_names)
        s6 == SingleWordMatch(rom_name, metadata, xml_names)
    IN  IF s1 # NoEntry THEN [ strategy |-> 1, entry |-> s1 ]
        ELSE IF s2 # NoEntry THEN [ strategy |-> 2, entry |-> s2 ]
        ELSE IF s3 # NoEntry THEN [ strategy |-> 3, entry |-> s3 ]
        ELSE IF s4 # NoEntry THEN [ strategy |-> 4, entry |-> s4 ]
        ELSE IF s5 # NoEntry THEN [ strategy |-> 5, entry |-> s5 ]
        ELSE IF s6 # NoEntry THEN [ strategy |-> 6, entry |-> s6 ]
        ELSE [ strategy |-> 0, entry |-> NoEntry ]

\* rom_file is the file's name; the result is the entry, or NoEntry for None
hyper_aggressive_rom_matching(rom_file, metadata, xml_names, hash_seed) ==
    MatchCascade(Stem(rom_file),
                 create_ultra_aggressive_variations(Stem(rom_file), hash_seed),
                 metadata, xml_names)

(***************************************************************************)
(* process_rom_batch_matching_only, the batches, the ROM file list.        *)
(* A ROM file is [dir, name]: dir is "top" for a file of the ROM root and  *)
(* "sub" for a file of a folder below it.                                  *)
(***************************************************************************)
ROM_EXTENSIONS == << << ".", "n", "e", "s" >>, << ".", "f", "d", "s" >> >>

\* a result record whose unmatched form leaves the genre fields blank
BlankUnmatched(rom_file, metadata_entry) ==
    IF metadata_entry # NoEntry
    THEN [ rom_file |-> rom_file, matched |-> TRUE,
           genre |-> metadata_entry.genre,
           xml_name |-> metadata_entry.original_name,
           full_genre |-> metadata_entry.full_genre ]
    ELSE [ rom_file |-> rom_file, matched |-> FALSE,
           genre |-> << >>, xml_name |-> None, full_genre |-> << >> ]

\* the result record that process_rom_batch_matching_only builds
MatchResult(rom_file, metadata_entry) ==
    IF metadata_entry # NoEntry
    THEN [ rom_file |-> rom_file, matched |-> TRUE,
           genre |-> metadata_entry.genre,
           xml_name |-> metadata_entry.original_name,
           full_genre |-> metadata_entry.full_genre ]
    ELSE [ rom_file |-> rom_file, matched |-> FALSE,
           genre |-> Unknown, xml_name |-> None, full_genre |-> Unknown ]

\* the loop body of process_rom_batch_matching_only: the result of one ROM
ProcessRom(rom_file, metadata, xml_names, hash_seed) ==
    MatchResult(rom_file,
        hyper_aggressive_rom_matching(rom_file.name, metadata, xml_names, hash_seed).entry)

\* Path(dir).glob("*" + ext) over a listing of file names
GlobTop(top_names, ext) ==
    [ i \in 1..Len(SelectSeq(top_names, LAMBDA n : EndsWith(n, ext))) |->
        [ dir |-> "top", name |-> SelectSeq(top_names, LAMBDA n : EndsWith(n, ext))[i] ] ]

\* Path(dir).glob("**/*" + ext): the folder itself, then the folders below it
GlobRecursive(top_names, sub_names, ext) ==
    GlobTop(top_names, ext)
    \o [ i \in 1..Len(SelectSeq(sub_names, LAMBDA n : EndsWith(n, ext))) |->
           [ dir |-> "sub", name |-> SelectSeq(sub_names, LAMBDA n : EndsWith(n, ext))[i] ] ]

RECURSIVE FindRomFiles(_, _, _)
\* the loop over ROM_EXTENSIONS that builds rom_files, from extension e on
FindRomFiles(top_names, sub_names, e) ==
    IF e > Len(ROM_EXTENSIONS) THEN << >>
    ELSE GlobTop(top_names, ROM_EXTENSIONS[e])
         \o GlobRecursive(top_names, sub_names, ROM_EXTENSIONS[e])
         \o FindRomFiles(top_names, sub_names, e + 1)

\* a batch size rounded up, so that at most max_workers batches are cut
CeilBatchSize(total_roms, workers) ==
    IF total_roms % workers = 0 THEN total_roms \div workers
    ELSE (total_roms \div workers) + 1

\* batch_size = max(1, total_roms // max_workers)
BatchSize(total_roms, workers) ==
    IF total_roms \div workers > 1 THEN total_roms \div workers ELSE 1

\* range(0, total_roms, size), as the 1-based start of each slice
BatchStarts(total_roms, size) == { i \in 1..total_roms : (i - 1) % size = 0 }

\* a split that keeps the full batches only
FullBatches(files, size) ==
    [ b \in 1..(Len(files) \div size) |-> SubSeq(files, (b - 1) * size + 1, b * size) ]

\* [rom_files[i:i + size] for i in range(0, total_roms, size)]
SplitBatches(files, size) ==
    LET total_roms == Len(files)
        n == Cardinality(BatchStarts(total_roms, size))
    IN  [ b \in 1..n |->
            SubSeq(files, (b - 1) * size + 1,
                   IF b * size < total_roms THEN b * size ELSE total_roms) ]

(***************************************************************************)
(* The state.                                                              *)
(***************************************************************************)
VARIABLES
    hash_seed,        \* the str hash seed of the process
    xml_source,       \* the catalog file: [ok, games]
    top_names,        \* the listing of the ROM root
    sub_names,        \* the listing of the folders below the ROM root
    max_workers,
    pc,               \* where organize_roms_by_genre / copy_roms_sequentially stands
    rom_metadata,
    xml_names,
    rom_files,
    rom_batches,
    next_submit,      \* the index of the next batch to submit
    task,             \* per batch: the state of its future and its local_results
    collected,        \* the futures as_completed has yielded
    all_results,
    processed_count,
    run,              \* which call of copy_roms_sequentially is under way
    copy_i,           \* the number of results the copy loop has handled
    stats,
    matched_details,
    unmatched_roms,
    genre_dirs,       \* the folders of the destination root
    root_files,       \* the names of the destination root that are not folders
    dest_files,       \* << folder, file name >> -> content, for the files in the folders
    copy_log,         \* history: what the copy loop did with each result
    first_run,        \* history: the destination and the log when the first call returned
    gen_name,         \* the Variation Generator alone: its argument
    gen_result,       \*   and what it returned
    m_rom,            \* two processes that match one ROM: the ROM file,
    m_seed,           \*   the hash seed of each process,
    m_pc,             \*   where each stands,
    m_catalog,        \*   what each loaded from the catalog,
    m_variations,     \*   the variations each generated,
    m_result,         \*   and what each Matcher returned
    report_ok,        \* which of the three report files can be written
    main_pc,          \* where main() stands
    xml_files,        \* main(): the *.xml files of the working directory
    choice_input,     \*   what the user types at "Select XML file (number): "
    workers_input,    \*   what the user types at "Number of parallel workers"
    cpu_count,        \*   os.cpu_count(), 0 for None
    xml_path,         \*   the catalog file main() chose
    trim_length,      \* naming one destination: the configured TRIM_FILENAME_LENGTH,
    name_input,       \*   the name of the ROM file,
    name_output,      \*   the destination name,
    name_pc,          \*   and where the naming stands
    scan_fs,          \* rom_scanner.py: the files of the ROM directory, by path,
    scan_todo,        \*   the futures of scan_file not yet collected,
    rom_data,         \*   the records collected (results / rom_metadata),
    scan_pc,          \*   where the script stands,
    dupes,            \*   what find_duplicates returned,
    move_i,           \*   the number of pairs move_duplicates has handled,
    dup_folder,       \*   the files of output/duplicates, by name,
    move_log,         \*   history: what move_duplicates did with each pair
    max_files_per_folder, \* rom_organizer.py: the configured EVERDRIVE_LAYOUT limit,
    metadata,         \*   the records loaded from METADATA_FILE,
    org_i,            \*   the number of records the loop has handled,
    folder_file_counts,
    out_files,        \*   the files of the output folders, by << folder, name >>,
    copied_count,
    skipped_count,
    org_pc,           \*   where the script stands,
    org_log           \*   history: what the loop did with each record

\* the state of what stands beside the genre pipeline
name_vars == << trim_length, name_input, name_output, name_pc >>

scan_vars == << scan_fs, scan_todo, rom_data, scan_pc, dupes, move_i, dup_folder, move_log >>

org_vars == << max_files_per_folder, metadata, org_i, folder_file_counts, out_files,
              copied_count, skipped_count, org_pc, org_log >>

extra_vars == << name_vars, scan_vars, org_vars >>

other_vars == << report_ok, main_pc, xml_files, choice_input, workers_input, cpu_count,
                 xml_path, extra_vars >>

input_vars == << hash_seed, xml_source, top_names, sub_names, max_workers, other_vars >>

match_vars == << rom_metadata, xml_names, rom_files, rom_batches, next_submit, task,
                 collected, all_results, processed_count >>

copy_vars == << run, copy_i, stats, matched_details, unmatched_roms, genre_dirs,
                root_files, dest_files, copy_log, first_run >>

gen_vars == << gen_name, gen_result >>

m_vars == << m_rom, m_seed, m_pc, m_catalog, m_variations, m_result >>

vars == << input_vars, pc, match_vars, copy_vars, gen_vars, m_vars >>

(***************************************************************************)
(* Bounds and the inputs the model draws from.                             *)
(***************************************************************************)
NumSeeds == 2

MaxWorkers == 2

MaxResults == 2

MaxNameLen == 3

Seeds == 0..(NumSeeds - 1)

Game(name, genre_text) == [ attr_name |-> name, elem_name |-> None, genre_text |-> genre_text ]

NameAbCd == << "a", "b", " ", "c", "d" >>

NameAbcd == << "a", "b", "c", "d" >>

NameZed == << "Z", "e", "d", " ", "(", "U", ")" >>

GenreG == << "G", "/", "x" >>

GenreH == << "H" >>

RomAbCd == << "a", "b", "-", "c", "d", ".", "n", "e", "s" >>

RomZed == << "z", "e", "d", ".", "f", "d", "s" >>

RomQq == << "q", "q", ".", "n", "e", "s" >>

\* catalog files: two games whose variations meet in those of ab-cd, a game
\* without genre, an empty game list, a file that does not parse
XmlSources ==
    { [ ok |-> TRUE, games |-> << Game(NameAbCd, GenreG), Game(NameAbcd, GenreH) >> ],
      [ ok |-> TRUE, games |-> << Game(NameZed, None) >> ],
      [ ok |-> TRUE, games |-> << >> ],
      [ ok |-> FALSE, games |-> << >> ] }

TopListings == { << >>, << RomAbCd >>, << RomAbCd, RomZed >> }

SubListings == { << >>, << RomQq >> }

NoStats == [ matched |-> 0, unmatched |-> 0, genres |-> << >> ]

NoFile == [ dir |-> "none", name |-> None ]

\* what a destination file holds: a ROM, part of a ROM, or what was there before
RomContent(rom_file) == [ kind |-> "rom", file |-> rom_file ]

PartialContent(rom_file) == [ kind |-> "partial", file |-> rom_file ]

OldContent == [ kind |-> "old", file |-> NoFile ]

NoSnapshot == [ taken |-> FALSE, genre_dirs |-> {}, dest_files |-> << >>, copy_log |-> << >> ]

NoTask == [ state |-> "new", local_results |-> << >> ]

(***************************************************************************)
(* organize_roms_by_genre, phase 1: parsing, the batches, the thread pool. *)
(***************************************************************************)
\* the report files: rom_analysis.json, xml_games.txt, matching_results.txt
ReportsWritable == [ rom_analysis |-> TRUE, xml_games |-> TRUE, matching_results |-> TRUE ]

\* nothing is being named
IdleNaming ==
    /\ trim_length = TRIM_FILENAME_LENGTH
    /\ name_input = << >>
    /\ name_output = << >>
    /\ name_pc = "idle"

\* rom_scanner.py is not under way
IdleScanning ==
    /\ scan_fs = << >>
    /\ scan_todo = {}
    /\ rom_data = << >>
    /\ scan_pc = "idle"
    /\ dupes = << >>
    /\ move_i = 0
    /\ dup_folder = << >>
    /\ move_log = << >>

\* rom_organizer.py is not under way
IdleOrganizer ==
    /\ max_files_per_folder = 0
    /\ metadata = << >>
    /\ org_i = 0
    /\ folder_file_counts = << >>
    /\ out_files = << >>
    /\ copied_count = 0
    /\ skipped_count = 0
    /\ org_pc = "idle"
    /\ org_log = << >>

IdleExtras ==
    /\ IdleNaming
    /\ IdleScanning
    /\ IdleOrganizer

\* main() is not under way
IdleMain ==
    /\ main_pc = "idle"
    /\ xml_files = << >>
    /\ choice_input = << >>
    /\ workers_input = << >>
    /\ cpu_count = 0
    /\ xml_path = None

IdleOthers ==
    /\ report_ok = ReportsWritable
    /\ IdleMain
    /\ IdleExtras

\* the values of the state that a specification does not use
IdleMatching ==
    /\ rom_metadata = << >>
    /\ xml_names = << >>
    /\ rom_files = << >>
    /\ rom_batches = << >>
    /\ next_submit = 1
    /\ task = << >>
    /\ collected = {}
    /\ processed_count = 0

IdleCopier ==
    /\ run = 1
    /\ copy_i = 0
    /\ stats = NoStats
    /\ matched_details = << >>
    /\ unmatched_roms = << >>
    /\ genre_dirs = {}
    /\ copy_log = << >>
    /\ first_run = NoSnapshot

IdleGenerator ==
    /\ gen_name = << >>
    /\ gen_result = << >>

IdleMatcher ==
    /\ m_rom = << >>
    /\ m_seed = << >>
    /\ m_pc = << >>
    /\ m_catalog = << >>
    /\ m_variations = << >>
    /\ m_result = << >>

\* the files a destination root may hold before the run: nothing, an older
\* copy of a ROM in a genre folder, a plain file where a genre folder goes
InitialTrees ==
    { [ root_files |-> {}, dest_files |-> << >> ],
      [ root_files |-> {}, dest_files |-> (<< << "G" >>, RomAbCd >> :> OldContent) ],
      [ root_files |-> { Unknown }, dest_files |-> << >> ] }

Init ==
    /\ IdleOthers
    /\ hash_seed \in Seeds
    /\ xml_source \in XmlSources
    /\ top_names \in TopListings
    /\ sub_names \in SubListings
    /\ max_workers \in 1..MaxWorkers
    /\ pc = "parse"
    /\ IdleMatching
    /\ all_results = << >>
    /\ IdleCopier
    /\ \E tree \in InitialTrees :
           /\ root_files = tree.root_files
           /\ dest_files = tree.dest_files
    /\ IdleGenerator
    /\ IdleMatcher

\* enhanced_xml_parsing: the two values it returns; on any exception ({}, [])
ParsedXml(source, seed) ==
    IF source.ok
    THEN LoadGames(source.games, 1, << << >>, << >> >>, seed)
    ELSE << << >>, << >> >>

\* enhanced_xml_parsing with the write of xml_games.txt, which is inside the
\* try: when the file cannot be written the handler returns ({}, [])
enhanced_xml_parsing(source, seed, writable) ==
    IF writable THEN ParsedXml(source, seed) ELSE << << >>, << >> >>

\* the parsing step without the test of the index that line 603 makes
ParseXmlNoAbort ==
    /\ pc = "parse"
    /\ \E parsed \in { ParsedXml(xml_source, hash_seed) } :
           /\ rom_metadata' = parsed[1]
           /\ xml_names' = parsed[2]
           /\ pc' = "find"
    /\ UNCHANGED << input_vars, rom_files, rom_batches, next_submit, task, collected,
                    all_results, processed_count, copy_vars, gen_vars, m_vars >>

\* enhanced_xml_parsing and the test of its result
ParseXml ==
    /\ pc = "parse"
    /\ \E parsed \in { enhanced_xml_parsing(xml_source, hash_seed, report_ok.xml_games) } :
           /\ rom_metadata' = parsed[1]
           /\ xml_names' = parsed[2]
           /\ pc' = IF parsed[1] = << >> THEN "exit" ELSE "find"
    /\ UNCHANGED << input_vars, rom_files, rom_batches, next_submit, task, collected,
                    all_results, processed_count, copy_vars, gen_vars, m_vars >>

\* the ROM file list and the test of it
FindRoms ==
    /\ pc = "find"
    /\ rom_files' = FindRomFiles(top_names, sub_names, 1)
    /\ pc' = IF rom_files' = << >> THEN "exit" ELSE "split"
    /\ UNCHANGED << input_vars, rom_metadata, xml_names, rom_batches, next_submit, task,
                    collected, all_results, processed_count, copy_vars, gen_vars, m_vars >>

\* the batches
Split ==
    /\ pc = "split"
    /\ rom_batches' = SplitBatches(rom_files, BatchSize(Len(rom_files), max_workers))
    /\ task' = [ b \in 1..Len(rom_batches') |-> NoTask ]
    /\ pc' = "submit"
    /\ UNCHANGED << input_vars, rom_metadata, xml_names, rom_files, next_submit,
                    collected, all_results, processed_count, copy_vars, gen_vars, m_vars >>

\* executor.submit of the next batch
Submit ==
    /\ pc = "submit"
    /\ task' = [ task EXCEPT ![next_submit].state = "queued" ]
    /\ next_submit' = next_submit + 1
    /\ pc' = IF next_submit = Len(rom_batches) THEN "collect" ELSE "submit"
    /\ UNCHANGED << input_vars, rom_metadata, xml_names, rom_files, rom_batches,
                    collected, all_results, processed_count, copy_vars, gen_vars, m_vars >>

Running == { b \in DOMAIN task : task[b].state = "running" }

\* a thread of the pool takes the oldest work item of the queue
StartTask(b) ==
    /\ task[b].state = "queued"
    /\ \A c \in 1..(b - 1) : task[c].state # "queued"
    /\ Cardinality(Running) < max_workers
    /\ task' = [ task EXCEPT ![b].state = "running" ]
    /\ UNCHANGED << input_vars, pc, rom_metadata, xml_names, rom_files, rom_batches,
                    next_submit, collected, all_results, processed_count, copy_vars,
                    gen_vars, m_vars >>

\* one round of the loop of process_rom_batch_matching_only
MatchOne(b) ==
    /\ task[b].state = "running"
    /\ Len(task[b].local_results) < Len(rom_batches[b])
    /\ task' = [ task EXCEPT ![b].local_results =
                   Append(@, ProcessRom(rom_batches[b][Len(@) + 1],
                                        rom_metadata, xml_names, hash_seed)) ]
    /\ UNCHANGED << input_vars, pc, rom_metadata, xml_names, rom_files, rom_batches,
                    next_submit, collected, all_results, processed_count, copy_vars,
                    gen_vars, m_vars >>

\* process_rom_batch_matching_only returns: the future is done
FinishTask(b) ==
    /\ task[b].state = "running"
    /\ Len(task[b].local_results) = Len(rom_batches[b])
    /\ task' = [ task EXCEPT ![b].state = "done" ]
    /\ UNCHANGED << input_vars, pc, rom_metadata, xml_names, rom_files, rom_batches,
                    next_submit, collected, all_results, processed_count, copy_vars,
                    gen_vars, m_vars >>

\* a scheduler that keeps the results of the last batch only
CollectLast(b) ==
    /\ pc = "collect"
    /\ task[b].state = "done"
    /\ b \notin collected
    /\ all_results' = task[b].local_results
    /\ processed_count' = processed_count + Len(rom_batches[b])
    /\ collected' = collected \cup { b }
    /\ UNCHANGED << input_vars, pc, rom_metadata, xml_names, rom_files, rom_batches,
                    next_submit, task, copy_vars, gen_vars, m_vars >>

\* one round of the as_completed loop: a future that is done and was not
\* yielded yet (as_completed yields the futures done so far in no fixed order)
Collect(b) ==
    /\ pc = "collect"
    /\ task[b].state = "done"
    /\ b \notin collected
    /\ all_results' = all_results \o task[b].local_results
    /\ processed_count' = processed_count + Len(rom_batches[b])
    /\ collected' = collected \cup { b }
    /\ UNCHANGED << input_vars, pc, rom_metadata, xml_names, rom_files, rom_batches,
                    next_submit, task, copy_vars, gen_vars, m_vars >>

\* a scheduler that goes on as soon as one batch is in
FirstBatchIn == collected # {}

\* as_completed is exhausted and the with block has shut the pool down
MatchingPhaseOver == collected = DOMAIN task

\* phase 1 ends, phase 2 calls copy_roms_sequentially
StartCopying ==
    /\ pc = "collect"
    /\ MatchingPhaseOver
    /\ pc' = "copy"
    /\ UNCHANGED << input_vars, match_vars, copy_vars, gen_vars, m_vars >>

(***************************************************************************)
(* copy_roms_sequentially.  The destination tree is genre_dirs (the genre  *)
(* folders), root_files (plain files directly under the genre root) and    *)
(* dest_files (the files inside genre folders, by <<folder, name>>).       *)
(***************************************************************************)
\* clean_filename(result['genre']) or "Unknown"
CleanGenre(result) ==
    LET cleaned == clean_filename(result.genre, 0)
    IN  IF cleaned = << >> THEN Unknown ELSE cleaned

\* destination_name under a configured TRIM_FILENAME_LENGTH, 0 for none
TrimmedName(name, trim) ==
    IF trim # 0 THEN clean_filename(name, trim) ELSE name

\* destination_name
DestinationName(rom_file) == TrimmedName(rom_file.name, TRIM_FILENAME_LENGTH)

\* destination = genre_folder / destination_name
Destination(result) == << CleanGenre(result), DestinationName(result.rom_file) >>

\* a copier that overwrites what is there
AlwaysCopy(destination, files) == TRUE

\* if not destination.exists()
ShouldCopy(destination, files) == destination \notin DOMAIN files

\* shutil.copy2 either completes, or raises before it created the file, or
\* raises after it wrote a part of it
CopyOutcomes == { "ok", "fail", "partial" }

\* a copy2 that reports success and leaves no file
LosesCopy(files, destination, rom_file, outcome) == files

\* the destination files after shutil.copy2(rom_file, destination)
CopyEffect(files, destination, rom_file, outcome) ==
    CASE outcome = "ok" -> (destination :> RomContent(rom_file)) @@ files
      [] outcome = "partial" -> (destination :> PartialContent(rom_file)) @@ files
      [] OTHER -> files

\* stats['genres'].get(clean_genre, 0) + 1
GenreCount(genres, clean_genre) ==
    IF clean_genre \in DOMAIN genres THEN genres[clean_genre] + 1 ELSE 1

\* the element of rom_results the loop of copy_roms_sequentially is at
CurrentResult == all_results[copy_i + 1]

\* the statistics after counting a result
CountResult(counts, result) ==
    [ matched |-> counts.matched + (IF result.matched THEN 1 ELSE 0),
      unmatched |-> counts.unmatched + (IF result.matched THEN 0 ELSE 1),
      genres |-> (CleanGenre(result) :> GenreCount(counts.genres, CleanGenre(result)))
                 @@ counts.genres ]

\* one line of the copy log
LogEntry(did) ==
    [ run |-> run, index |-> copy_i + 1,
      destination |-> Destination(CurrentResult), did |-> did ]

\* one round of the loop without the try around the copy: a copy that raises
\* ends the call
CopyStepUncaught ==
    /\ pc = "copy"
    /\ copy_i < Len(all_results)
    /\ stats' = CountResult(stats, CurrentResult)
    /\ matched_details' =
           IF CurrentResult.matched
           THEN Append(matched_details,
                       << CurrentResult.rom_file.name, CurrentResult.xml_name,
                          CurrentResult.full_genre >>)
           ELSE matched_details
    /\ unmatched_roms' =
           IF CurrentResult.matched THEN unmatched_roms
           ELSE Append(unmatched_roms, CurrentResult.rom_file.name)
    /\ IF CleanGenre(CurrentResult) \in root_files
       THEN /\ pc' = "crashed"
            /\ UNCHANGED << copy_i, genre_dirs, dest_files, copy_log >>
       ELSE /\ genre_dirs' = genre_dirs \cup { CleanGenre(CurrentResult) }
            /\ IF ShouldCopy(Destination(CurrentResult), dest_files)
               THEN \E outcome \in CopyOutcomes :
                        /\ dest_files' = CopyEffect(dest_files, Destination(CurrentResult),
                                                    CurrentResult.rom_file, outcome)
                        /\ copy_log' = IF outcome = "ok"
                                       THEN Append(copy_log, LogEntry(outcome))
                                       ELSE copy_log
                        /\ copy_i' = IF outcome = "ok" THEN copy_i + 1 ELSE copy_i
                        /\ pc' = IF outcome = "ok" THEN pc ELSE "crashed"
               ELSE /\ dest_files' = dest_files
                    /\ copy_log' = Append(copy_log, LogEntry("skip"))
                    /\ copy_i' = copy_i + 1
                    /\ pc' = pc
    /\ UNCHANGED << input_vars, match_vars, run, root_files, first_run, gen_vars, m_vars >>

\* one round of the loop of copy_roms_sequentially
CopyStep ==
    /\ pc = "copy"
    /\ copy_i < Len(all_results)
    /\ stats' = CountResult(stats, CurrentResult)
    /\ matched_details' =
           IF CurrentResult.matched
           THEN Append(matched_details,
                       << CurrentResult.rom_file.name, CurrentResult.xml_name,
                          CurrentResult.full_genre >>)
           ELSE matched_details
    /\ unmatched_roms' =
           IF CurrentResult.matched THEN unmatched_roms
           ELSE Append(unmatched_roms, CurrentResult.rom_file.name)
    /\ IF CleanGenre(CurrentResult) \in root_files
       THEN \* mkdir(exist_ok=True) raises FileExistsError on a plain file
            /\ pc' = "crashed"
            /\ UNCHANGED << copy_i, genre_dirs, dest_files, copy_log >>
       ELSE /\ pc' = pc
            /\ copy_i' = copy_i + 1
            /\ genre_dirs' = genre_dirs \cup { CleanGenre(CurrentResult) }
            /\ IF ShouldCopy(Destination(CurrentResult), dest_files)
               THEN \E outcome \in CopyOutcomes :
                        /\ dest_files' = CopyEffect(dest_files, Destination(CurrentResult),
                                                    CurrentResult.rom_file, outcome)
                        /\ copy_log' = Append(copy_log, LogEntry(outcome))
               ELSE /\ dest_files' = dest_files
                    /\ copy_log' = Append(copy_log, LogEntry("skip"))
    /\ UNCHANGED << input_vars, match_vars, run, root_files, first_run, gen_vars, m_vars >>

\* the loop is over: return stats, matched_details, unmatched_roms
CopierReturn ==
    /\ pc = "copy"
    /\ copy_i = Len(all_results)
    /\ pc' = "copied"
    /\ UNCHANGED << input_vars, match_vars, copy_vars, gen_vars, m_vars >>

\* stats['total_roms'] = total_roms, the summary and matching_results.txt,
\* whose open and writes have no handler
Finish ==
    /\ pc = "copied"
    /\ stats' = [ matched |-> stats.matched, unmatched |-> stats.unmatched,
                  genres |-> stats.genres, total_roms |-> Len(rom_files) ]
    /\ pc' = IF report_ok.matching_results THEN "done" ELSE "crashed"
    /\ UNCHANGED << input_vars, match_vars, run, copy_i, matched_details, unmatched_roms,
                    genre_dirs, root_files, dest_files, copy_log, first_run,
                    gen_vars, m_vars >>

Next ==
    \/ ParseXml
    \/ FindRoms
    \/ Split
    \/ Submit
    \/ \E b \in DOMAIN task : StartTask(b)
    \/ \E b \in DOMAIN task : MatchOne(b)
    \/ \E b \in DOMAIN task : FinishTask(b)
    \/ \E b \in DOMAIN task : Collect(b)
    \/ StartCopying
    \/ CopyStep
    \/ CopierReturn
    \/ Finish

Spec == Init /\ [][Next]_vars

(***************************************************************************)
(* The copier alone, called twice on the same results and the same         *)
(* destination root.                                                       *)
(***************************************************************************)
\* results as process_rom_batch_matching_only returns them
CopyResults ==
    { MatchResult([ dir |-> "top", name |-> RomAbCd ], GameEntry(Game(NameAbCd, GenreG))),
      MatchResult([ dir |-> "sub", name |-> RomAbCd ], GameEntry(Game(NameAbcd, GenreG))),
      MatchResult([ dir |-> "sub", name |-> RomQq ], GameEntry(Game(NameZed, GenreH))),
      MatchResult([ dir |-> "top", name |-> RomZed ], NoEntry) }

ResultLists == UNION { [ 1..n -> CopyResults ] : n \in 0..MaxResults }

InitCopy ==
    /\ IdleOthers
    /\ hash_seed = 0
    /\ xml_source = [ ok |-> FALSE, games |-> << >> ]
    /\ top_names = << >>
    /\ sub_names = << >>
    /\ max_workers = 1
    /\ pc = "copy"
    /\ IdleMatching
    /\ all_results \in ResultLists
    /\ IdleCopier
    /\ \E tree \in InitialTrees :
           /\ root_files = tree.root_files
           /\ dest_files = tree.dest_files
    /\ IdleGenerator
    /\ IdleMatcher

\* copy_roms_sequentially is called again with the same rom_results and genre_dir
SecondRun ==
    /\ pc \in { "copied", "crashed" }
    /\ run = 1
    /\ first_run' = [ taken |-> TRUE, genre_dirs |-> genre_dirs,
                      dest_files |-> dest_files, copy_log |-> copy_log ]
    /\ run' = 2
    /\ copy_i' = 0
    /\ stats' = NoStats
    /\ matched_details' = << >>
    /\ unmatched_roms' = << >>
    /\ pc' = "copy"
    /\ UNCHANGED << input_vars, match_vars, genre_dirs, root_files, dest_files, copy_log,
                    gen_vars, m_vars >>

NextCopy ==
    \/ CopyStep
    \/ CopierReturn
    \/ SecondRun

SpecCopy == InitCopy /\ [][NextCopy]_vars

\* the copies a run attempted, by what became of them
Attempts(r, outcomes) ==
    { k \in DOMAIN copy_log : copy_log[k].run = r /\ copy_log[k].did \in outcomes }

\* C1: a destination that exists when its result is processed is never
\* written: no step of the copier changes or removes a file that is already in
\* the destination tree, and no copy is logged for a destination that existed
C1_FirstWriteWins ==
    [][ /\ \A d \in DOMAIN dest_files :
               d \in DOMAIN dest_files' /\ dest_files'[d] = dest_files[d]
        /\ \A k \in DOMAIN copy_log' :
               (k \notin DOMAIN copy_log /\ copy_log'[k].destination \in DOMAIN dest_files)
                   => copy_log'[k].did = "skip" ]_vars

\* C1 witness: a result was skipped over a file that was there before the run
C1_SkippedExisting ==
    \E k \in DOMAIN copy_log :
        /\ copy_log[k].did = "skip"
        /\ copy_log[k].destination \in DOMAIN dest_files
        /\ dest_files[copy_log[k].destination] = OldContent

\* both runs are over
BothRunsOver == run = 2 /\ pc \in { "copied", "crashed" }

\* the second run left the tree as the first run left it and copied nothing
SecondRunIdle ==
    /\ dest_files = first_run.dest_files
    /\ genre_dirs = first_run.genre_dirs
    /\ Attempts(2, CopyOutcomes) = {}

TaskUnfinished == \E b \in DOMAIN task : task[b].state \in { "queued", "running" }

\* a step of a matching task
TaskStep ==
    \E b \in DOMAIN task : task[b].state \in { "queued", "running" } /\ task'[b] # task[b]

\* C3: a step of a matching task changes nothing but the task's own result
\* list and state (no file, no shared map, list or counter), and while any
\* matching task is unfinished no ROM is copied, no genre folder is created
\* and the copier is not entered
C3_MatchingIsolated ==
    [][ /\ TaskStep =>
              /\ UNCHANGED << rom_metadata, xml_names, rom_files, rom_batches, collected,
                              all_results, processed_count, copy_vars >>
              /\ Cardinality({ b \in DOMAIN task : task'[b] # task[b] }) = 1
        /\ TaskUnfinished =>
              /\ UNCHANGED << copy_i, genre_dirs, dest_files, copy_log >>
              /\ pc' # "copy" ]_vars

\* C3 witness: a task is matching while the results of another are already merged
C3_MatchingDuringMerge ==
    /\ all_results # << >>
    /\ \E b \in DOMAIN task :
           task[b].state = "running" /\ task[b].local_results # << >>

\* rom_file, matched and genre of a result
Triple(result) == << result.rom_file, result.matched, result.genre >>

\* what matching the ROM list one file after the other gives
SequentialTriples ==
    { Triple(ProcessRom(rom_files[k], rom_metadata, xml_names, hash_seed)) :
          k \in DOMAIN rom_files }

\* C4: when the matching phase is over, the set of (rom_file, matched, genre)
\* of the aggregated results is the set that matching the ROM list file by
\* file gives, whatever max_workers is and in whatever order the batches
\* completed
C4_SameResultSet ==
    (pc = "copy" /\ copy_i = 0) =>
        { Triple(all_results[k]) : k \in DOMAIN all_results } = SequentialTriples

\* C4 witness: two workers, and the batches came in out of list order
C4_OutOfOrder ==
    /\ pc = "copy"
    /\ max_workers > 1
    /\ Len(all_results) = Len(rom_files)
    /\ [ k \in DOMAIN all_results |-> all_results[k].rom_file ] # rom_files

RECURSIVE Flatten(_)
\* the batches laid end to end
Flatten(batches) ==
    IF batches = << >> THEN << >> ELSE Head(batches) \o Flatten(Tail(batches))

\* how often a ROM file is in a list
Count(seq, x) == Cardinality({ k \in DOMAIN seq : seq[k] = x })

\* C5: the batches are non-empty contiguous slices that laid end to end give
\* the ROM file list, and when the matching phase is over the aggregated
\* results hold one result per element of the ROM file list
C5_BatchesPartition ==
    /\ pc \in { "submit", "collect", "copy" } =>
           /\ Flatten(rom_batches) = rom_files
           /\ \A b \in DOMAIN rom_batches : rom_batches[b] # << >>
    /\ pc = "copy" =>
           /\ Len(all_results) = Len(rom_files)
           /\ \A k \in DOMAIN rom_files :
                  Count([ j \in DOMAIN all_results |-> all_results[j].rom_file ],
                        rom_files[k]) = Count(rom_files, rom_files[k])

\* C5 witness: the results of a list cut into batches of unequal length
C5_UnevenBatches ==
    /\ pc = "copy"
    /\ Len(all_results) = Len(rom_files)
    /\ \E b, c \in DOMAIN rom_batches : Len(rom_batches[b]) # Len(rom_batches[c])

\* the batches were cut, of a list at least as long as the number of workers
BatchesCut == pc \in { "submit", "collect", "copy" } /\ Len(rom_files) >= max_workers

\* C6 as stated: exactly max_workers batches
C6_WorkerCountBatches == BatchesCut => Len(rom_batches) = max_workers

\* C6, amended: batch_size is max(1, total // max_workers); every batch but
\* the last has batch_size elements and the last has 1..batch_size; the
\* number of batches is max_workers when max_workers divides total, and
\* otherwise larger: the remainder makes further batches
C6_BatchSizes ==
    BatchesCut =>
        LET total == Len(rom_files)
            size == BatchSize(total, max_workers)
            n == Len(rom_batches)
        IN  /\ size = (IF total \div max_workers > 1 THEN total \div max_workers ELSE 1)
            /\ \A b \in 1..(n - 1) : Len(rom_batches[b]) = size
            /\ Len(rom_batches[n]) \in 1..size
            /\ (total % max_workers = 0) => n = max_workers
            /\ (total % max_workers # 0) => n > max_workers
            /\ (n - 1) * size < total /\ total <= n * size

\* C6 witness: more batches than workers
C6_MoreBatchesThanWorkers == BatchesCut /\ Len(rom_batches) > max_workers

(***************************************************************************)
(* The Matcher: the same ROM matched against the same catalog source by    *)
(* two runs of the program, each with the string hashing of its own        *)
(* process.                                                                *)
(***************************************************************************)
Runs == { 1, 2 }

NameAbcdef == << "a", "b", "c", "d", "e", "f" >>

NameLong == << "a", "b", "c", "d", "e", "f", "g", "h", "i", "j", "k" >>

NameTwoWords == << "a", "b", "c", "d", " ", "w", "x", "y", "z" >>

RomAbcd == << "a", "b", "c", "d", ".", "n", "e", "s" >>

RomBcde == << "b", "c", "d", "e", ".", "n", "e", "s" >>

RomAbcdeg == << "a", "b", "c", "d", "e", "g", ".", "n", "e", "s" >>

\* catalog sources with at least one game (with none the program stops
\* before it matches)
MatchSources ==
    { source \in XmlSources : source.games # << >> }
    \cup { [ ok |-> TRUE, games |-> << Game(NameAbcdef, GenreH) >> ],
           [ ok |-> TRUE,
             games |-> << Game(NameLong, GenreG), Game(NameTwoWords, GenreH) >> ] }

MatchRoms == { RomAbCd, RomZed, RomQq, RomAbcd, RomBcde, RomAbcdeg }

InitMatch ==
    /\ IdleOthers
    /\ hash_seed = 0
    /\ xml_source \in MatchSources
    /\ top_names = << >>
    /\ sub_names = << >>
    /\ max_workers = 1
    /\ pc = "match"
    /\ IdleMatching
    /\ all_results = << >>
    /\ IdleCopier
    /\ root_files = {}
    /\ dest_files = << >>
    /\ IdleGenerator
    /\ m_rom \in MatchRoms
    /\ m_seed \in { f \in [ Runs -> Seeds ] : f[1] <= f[2] }
    /\ m_pc = [ r \in Runs |-> "load" ]
    /\ m_catalog = [ r \in Runs |-> << << >>, << >> >> ]
    /\ m_variations = [ r \in Runs |-> << >> ]
    /\ m_result = [ r \in Runs |-> [ strategy |-> 0, entry |-> NoEntry ] ]

\* run r parses the catalog
LoadCatalog(r) ==
    /\ m_pc[r] = "load"
    /\ m_catalog' = [ m_catalog EXCEPT ![r] = ParsedXml(xml_source, m_seed[r]) ]
    /\ m_pc' = [ m_pc EXCEPT ![r] = "vary" ]
    /\ UNCHANGED << input_vars, pc, match_vars, copy_vars, gen_vars, m_rom, m_seed,
                    m_variations, m_result >>

\* run r enters hyper_aggressive_rom_matching: the variations of the stem
VaryStem(r) ==
    /\ m_pc[r] = "vary"
    /\ m_variations' = [ m_variations EXCEPT ![r] =
                           create_ultra_aggressive_variations(Stem(m_rom), m_seed[r]) ]
    /\ m_pc' = [ m_pc EXCEPT ![r] = "match" ]
    /\ UNCHANGED << input_vars, pc, match_vars, copy_vars, gen_vars, m_rom, m_seed,
                    m_catalog, m_result >>

\* run r goes through the strategies and returns
MatchStem(r) ==
    /\ m_pc[r] = "match"
    /\ m_result' = [ m_result EXCEPT ![r] =
                       MatchCascade(Stem(m_rom), m_variations[r],
                                    m_catalog[r][1], m_catalog[r][2]) ]
    /\ m_pc' = [ m_pc EXCEPT ![r] = "done" ]
    /\ UNCHANGED << input_vars, pc, match_vars, copy_vars, gen_vars, m_rom, m_seed,
                    m_catalog, m_variations >>

NextMatch ==
    \/ \E r \in Runs : LoadCatalog(r)
    \/ \E r \in Runs : VaryStem(r)
    \/ \E r \in Runs : MatchStem(r)

SpecMatch == InitMatch /\ [][NextMatch]_vars

\* run r has returned from the Matcher
Done(r) == m_pc[r] = "done"

\* what each of the six strategies finds for run r, taken alone
Strategies(r) ==
    << DirectMatch(m_variations[r], m_catalog[r][1]),
       CaseMatch(m_variations[r], m_catalog[r][1]),
       SubstringMatch(Stem(m_rom), m_variations[r], m_catalog[r][1]),
       SimilarityMatch(m_variations[r], m_catalog[r][1], m_catalog[r][2]),
       WordMatch(Stem(m_rom), m_catalog[r][1], m_catalog[r][2]),
       SingleWordMatch(Stem(m_rom), m_catalog[r][1], m_catalog[r][2]) >>

\* the positions of the variations of run r that are keys of the catalog
KeyedVariations(r) ==
    { i \in DOMAIN m_variations[r] : HasKey(m_catalog[r][1], m_variations[r][i]) }

\* C7: the Matcher returns the hit of the lowest-numbered strategy that
\* hits (every strategy before the one that returned found nothing, and
\* with no hit at all it returns none), and when some variation of the stem
\* is a key it returns the entry stored under the first such variation of
\* the list
C7_FirstHitInOrder ==
    \A r \in Runs :
        Done(r) =>
            /\ m_result[r].strategy \in 0..6
            /\ \A j \in 1..6 :
                   (m_result[r].strategy = 0 \/ j < m_result[r].strategy)
                       => Strategies(r)[j] = NoEntry
            /\ m_result[r].strategy = 0 => m_result[r].entry = NoEntry
            /\ m_result[r].strategy > 0 =>
                   /\ m_result[r].entry # NoEntry
                   /\ m_result[r].entry = Strategies(r)[m_result[r].strategy]
            /\ KeyedVariations(r) # {} =>
                   /\ m_result[r].strategy = 1
                   /\ m_result[r].entry =
                          MetaGet(m_catalog[r][1],
                                  m_variations[r][SetMin(KeyedVariations(r))])

\* C7 witness: a later strategy returned after the key lookup found nothing,
\* while a still later one would have hit too
C7_LaterStrategyHit ==
    \E r \in Runs :
        /\ Done(r)
        /\ m_result[r].strategy > 1
        /\ \E j \in 1..6 : j > m_result[r].strategy /\ Strategies(r)[j] # NoEntry

\* C8 as stated: two runs on the same ROM stem and the same catalog source
\* generate the same ordered variation list and return the same entry
C8_Deterministic ==
    (Done(1) /\ Done(2)) =>
        /\ m_variations[1] = m_variations[2]
        /\ m_result[1].entry = m_result[2].entry

(***************************************************************************)
(* The Variation Generator alone, on every short string over an alphabet   *)
(* with a blank, letters of both cases, a separator and parentheses, and   *)
(* on some longer names that reach the article, number and abbreviation    *)
(* steps.                                                                  *)
(***************************************************************************)
NameChars == { " ", "a", "B", "-", "(", ")" }

ShortNames == UNION { [ 1..n -> NameChars ] : n \in 0..MaxNameLen }

SampleNames ==
    { << "T", "h", "e", " ", "a", "b" >>,
      << "a", "b", " ", "I", "I" >>,
      << "a", " ", "&", " ", "b" >>,
      << "D", "r", " ", "a", "b" >>,
      << " ", "a", " ", " ", "b", "\t" >>,
      << "a", "b", " ", "[", "!", "]" >>,
      << "(", "a", "b", ")", " ", "-", "c" >>,
      << "-", " ", " ", "a" >> }

InitVar ==
    /\ IdleOthers
    /\ hash_seed \in Seeds
    /\ xml_source = [ ok |-> FALSE, games |-> << >> ]
    /\ top_names = << >>
    /\ sub_names = << >>
    /\ max_workers = 1
    /\ pc = "generate"
    /\ IdleMatching
    /\ all_results = << >>
    /\ IdleCopier
    /\ root_files = {}
    /\ dest_files = << >>
    /\ gen_name \in ShortNames \cup SampleNames
    /\ gen_result = << >>
    /\ IdleMatcher

\* create_ultra_aggressive_variations(gen_name) is called and returns
Generate ==
    /\ pc = "generate"
    /\ gen_result' = create_ultra_aggressive_variations(gen_name, hash_seed)
    /\ pc' = "generated"
    /\ UNCHANGED << input_vars, match_vars, copy_vars, gen_name, m_vars >>

NextVar == Generate

SpecVar == InitVar /\ [][NextVar]_vars

\* the entries of the returned list
Returned == { gen_result[i] : i \in DOMAIN gen_result }

\* the argument trimmed and with each run of whitespace made one blank
Normalised == CollapseWS(Strip(gen_name))

C10_NoDuplicateNoShort ==
    pc = "generated" =>
        /\ \A i, j \in DOMAIN gen_result : gen_result[i] = gen_result[j] => i = j
        /\ \A i \in DOMAIN gen_result :
               /\ Len(gen_result[i]) >= 2
               /\ gen_result[i] = CollapseWS(Strip(gen_result[i]))

\* C10 witness: the clean-up dropped a short candidate and merged two
\* candidates that differ in whitespace only
C10_CleanupActed ==
    /\ pc = "generated"
    /\ gen_result # << >>
    /\ \E var \in RawVariations(gen_name) : Len(Strip(var)) < 2
    /\ \E v, w \in RawVariations(gen_name) :
           /\ v # w
           /\ Len(Strip(v)) > 1
           /\ CollapseWS(Strip(v)) = CollapseWS(Strip(w))

(***************************************************************************)
(* The Catalog Loader, the Matcher and the batch step on chosen catalogs:  *)
(* each case is a catalog file with the ROM that is matched against it.    *)
(***************************************************************************)
NameSonic == << "S", "o", "n", "i", "c", " ", "t", "h", "e", " ", "H", "e", "d", "g", "e", "h", "o", "g", " ", "(", "U", "S", "A", ")" >>

GenreActionPlatformer == << "A", "c", "t", "i", "o", "n", "/", "P", "l", "a", "t", "f", "o", "r", "m", "e", "r" >>

RomSonic == << "S", "o", "n", "i", "c", " ", "t", "h", "e", " ", "H", "e", "d", "g", "e", "h", "o", "g", ".", "n", "e", "s" >>

\* 17 and 18 characters: the stems of 10 and 11 characters below are 0.588
\* and 0.611 of them
NameSeventeen == << "a", "b", "c", "d", "e", "f", "g", "h", "i", "j", "k", "l", "m", "n", "o", "p", "q" >>

NameEighteen == << "a", "b", "c", "d", "e", "f", "g", "h", "i", "j", "k", "l", "m", "n", "o", "p", "q", "r" >>

NameTen == << "a", "b", "c", "d", "e", "f", "g", "h", "i", "j" >>

NameGood == << "G", "o", "o", "d" >>

RomTen == << "a", "b", "c", "d", "e", "f", "g", "h", "i", "j", ".", "n", "e", "s" >>

RomEleven == << "a", "b", "c", "d", "e", "f", "g", "h", "i", "j", "k", ".", "n", "e", "s" >>

RomThirteen == << "a", "b", "c", "d", "e", "f", "g", "h", "i", "j", "k", "l", "m", ".", "n", "e", "s" >>

RomGo == << "G", "o", ".", "n", "e", "s" >>

RomZedUpper == << "Z", "e", "d", ".", "f", "d", "s" >>

\* a name with more than fifty variations, a one-character base name, a
\* name that is only a region tag
NameManyVariations == << "a", "&", "b", "_", "V", " ", "(", "U", ")" >>

NameQ == << "Q", " ", "(", "U", "S", "A", ")" >>

RomQ == << "Q", ".", "n", "e", "s" >>

NameTagOnly == << "(", "U", "S", "A", ")" >>

GenreBlank == << " ", " ", " " >>

GenreSlashFirst == << "/", "x" >>

GenreEmpty == << >>

\* names whose variations meet: "abcd" is a variation of "ab-cd", and "Zed"
\* is the tag-stripped name of both "Zed (U)" and "Zed (E)"
NameAbDashCd == << "a", "b", "-", "c", "d" >>

NameZedE == << "Z", "e", "d", " ", "(", "E", ")" >>

TwoGames(first, second) == [ ok |-> TRUE, games |-> << first, second >> ]

\* names for the similarity strategy: two that tie against the stem "abzd",
\* two of which the second is nearer to the stem "abcde", and a stem near
\* the name "abcd"
NameAbxd == << "a", "b", "x", "d" >>

NameAbyd == << "a", "b", "y", "d" >>

NameAbxde == << "a", "b", "x", "d", "e" >>

NameAbcdqe == << "a", "b", "c", "d", "q", "e" >>

RomAbzd == << "a", "b", "z", "d", ".", "n", "e", "s" >>

RomAbcde == << "a", "b", "c", "d", "e", ".", "n", "e", "s" >>

RomAbcdx == << "a", "b", "c", "d", "x", ".", "n", "e", "s" >>

OneGame(name, genre_text) == [ ok |-> TRUE, games |-> << Game(name, genre_text) >> ]

LoadCase(source, rom) == [ source |-> source, rom |-> rom ]

LoadCases ==
    { LoadCase(OneGame(NameSonic, GenreActionPlatformer), RomSonic),
      LoadCase(OneGame(NameZed, GenreG), RomZedUpper),
      LoadCase(OneGame(NameZed, None), RomZedUpper),
      LoadCase(OneGame(NameZed, GenreEmpty), RomZedUpper),
      LoadCase(OneGame(NameZed, GenreBlank), RomZedUpper),
      LoadCase(OneGame(NameZed, GenreSlashFirst), RomZedUpper),
      LoadCase([ ok |-> TRUE, games |-> << >> ], RomAbCd),
      LoadCase([ ok |-> TRUE, games |-> << >> ], RomQq),
      LoadCase([ ok |-> TRUE, games |-> << >> ], RomSonic),
      LoadCase([ ok |-> TRUE, games |-> << >> ], RomGo),
      LoadCase([ ok |-> FALSE, games |-> << >> ], RomQq),
      LoadCase(OneGame(NameSeventeen, GenreH), RomTen),
      LoadCase(OneGame(NameEighteen, GenreH), RomEleven),
      LoadCase(OneGame(NameEighteen, GenreH), RomThirteen),
      LoadCase(OneGame(NameTen, GenreH), RomAbcdeg),
      LoadCase(OneGame(NameGood, GenreH), RomGo),
      LoadCase(TwoGames(Game(NameAbCd, GenreG), Game(NameAbcd, GenreH)), RomAbCd),
      LoadCase(TwoGames(Game(NameAbDashCd, GenreG), Game(NameAbcd, GenreH)), RomAbcd),
      LoadCase(TwoGames(Game(NameAbcd, GenreH), Game(NameAbDashCd, GenreG)), RomAbcd),
      LoadCase(TwoGames(Game(NameZed, GenreG), Game(NameZedE, GenreH)), RomZedUpper),
      LoadCase(TwoGames(Game(NameAbxd, GenreG), Game(NameAbyd, GenreH)), RomAbzd),
      LoadCase(TwoGames(Game(NameAbxde, GenreG), Game(NameAbcdqe, GenreH)), RomAbcde),
      LoadCase(TwoGames(Game(NameAbcd, GenreH), Game(NameAbDashCd, GenreG)), RomAbcdx),
      LoadCase(TwoGames(Game(NameAbDashCd, GenreG), Game(NameAbcd, GenreH)), RomAbcdx),
      LoadCase(OneGame(NameManyVariations, GenreH), RomQq),
      LoadCase(OneGame(NameQ, GenreActionPlatformer), RomQq),
      LoadCase(OneGame(NameQ, GenreActionPlatformer), RomQ),
      LoadCase(OneGame(NameTagOnly, GenreH), RomQq) }

InitLoad ==
    /\ IdleOthers
    /\ hash_seed = 0
    /\ \E case \in LoadCases : xml_source = case.source /\ m_rom = case.rom
    /\ top_names = << >>
    /\ sub_names = << >>
    /\ max_workers = 1
    /\ pc = "match"
    /\ IdleMatching
    /\ all_results = << >>
    /\ IdleCopier
    /\ root_files = {}
    /\ dest_files = << >>
    /\ IdleGenerator
    /\ \E seed \in Seeds : m_seed = [ r \in Runs |-> seed ]
    /\ m_pc = [ r \in Runs |-> "load" ]
    /\ m_catalog = [ r \in Runs |-> << << >>, << >> >> ]
    /\ m_variations = [ r \in Runs |-> << >> ]
    /\ m_result = [ r \in Runs |-> [ strategy |-> 0, entry |-> NoEntry ] ]

\* the batch step of run r builds the result of the ROM from what the
\* Matcher returned
RecordResult(r) ==
    /\ m_pc[r] = "done"
    /\ all_results' = Append(all_results,
                             MatchResult([ dir |-> "top", name |-> m_rom ], m_result[r].entry))
    /\ m_pc' = [ m_pc EXCEPT ![r] = "recorded" ]
    /\ UNCHANGED << input_vars, pc, rom_metadata, xml_names, rom_files, rom_batches,
                    next_submit, task, collected, processed_count, copy_vars, gen_vars,
                    m_rom, m_seed, m_catalog, m_variations, m_result >>

\* one run per case
NextLoad ==
    \/ LoadCatalog(1)
    \/ VaryStem(1)
    \/ MatchStem(1)
    \/ RecordResult(1)

SpecLoad == InitLoad /\ [][NextLoad]_vars

\* the Matcher of the run has returned
Returned1 == m_pc[1] \in { "done", "recorded" }

\* the positions of "/" in a text
Slashes(text) == { i \in 1..Len(text) : text[i] = "/" }

\* the catalog is one record named "<base> <region tag>" with a genre field
\* "A/B", and the stem of the ROM is the base, of two characters or more
TaggedSingleRecord ==
    /\ xml_source.ok
    /\ Len(xml_source.games) = 1
    /\ Len(Stem(m_rom)) > 1
    /\ \E k \in DOMAIN RegionPatterns :
          xml_source.games[1].attr_name = Stem(m_rom) \o << " " >> \o RegionPatterns[k]
    /\ xml_source.games[1].genre_text # None
    /\ \E i \in 2..(Len(xml_source.games[1].genre_text) - 1) :
          Slashes(xml_source.games[1].genre_text) = { i }

EmptyCatalog == m_pc[1] # "load" /\ m_catalog[1] = << << >>, << >> >>

\* C12: with an empty catalog the Matcher returns None whatever the ROM
\* stem, no strategy having hit, and the batch step records the ROM with
\* matched = false, genre "Unknown" and full_genre "Unknown"
C12_EmptyCatalogNoMatch ==
    EmptyCatalog =>
        /\ Returned1 => m_result[1] = [ strategy |-> 0, entry |-> NoEntry ]
        /\ \A k \in 1..6 : Strategies(1)[k] = NoEntry
        /\ \A i \in DOMAIN all_results :
              /\ all_results[i].rom_file.name = m_rom
              /\ ~all_results[i].matched
              /\ all_results[i].genre = Unknown
              /\ all_results[i].full_genre = Unknown

\* a ROM was recorded as unmatched against a catalog file without games
C12_UnmatchedRecorded ==
    /\ EmptyCatalog
    /\ xml_source.ok
    /\ m_pc[1] = "recorded"
    /\ Len(all_results) = 1
    /\ ~all_results[1].matched

\* the variations of the stem are there
Varied1 == m_pc[1] \in { "match", "done", "recorded" }

\* the keys of the index of the run
CatalogKeys == { m_catalog[1][1][j][1] : j \in DOMAIN m_catalog[1][1] }

\* the variations of the stem of the run
StemVariations == { m_variations[1][i] : i \in DOMAIN m_variations[1] }

\* the four conditions on a pair (variation v, key k)
Qualifies(v, k) ==
    /\ Len(Stem(m_rom)) <= 12
    /\ Len(v) >= 4
    /\ \E i \in 1..(Len(k) - Len(v) + 1) : Lower(SubSeq(k, i, i + Len(v) - 1)) = Lower(v)
    /\ 10 * Len(v) >= 6 * Len(k)

\* the catalog is the one record of that name
CatalogOf(name) == xml_source.ok /\ Len(xml_source.games) = 1
                   /\ xml_source.games[1].attr_name = name

\* C13: strategy 3 returns an entry only if some pair (variation v of the
\* stem, key k) has len(stem) <= 12, len(v) >= 4, lowercase(v) inside
\* lowercase(k) and 10*len(v) >= 6*len(k), the entry being that of such a
\* key, and it returns one whenever a pair does; a stem of 10 characters is
\* refused against a key of 17 (0.588), a stem of 11 is accepted against a
\* key of 18 (0.611), a stem of 13 is refused whatever the ratio, and "Go"
\* is refused against "Good"
C13_SubstringThreshold ==
    Varied1 =>
        /\ Strategies(1)[3] # NoEntry =>
              \E v \in StemVariations : \E j \in DOMAIN m_catalog[1][1] :
                 /\ Qualifies(v, m_catalog[1][1][j][1])
                 /\ Strategies(1)[3] = m_catalog[1][1][j][2]
        /\ Strategies(1)[3] = NoEntry =>
              \A v \in StemVariations : \A k \in CatalogKeys : ~Qualifies(v, k)
        /\ (CatalogOf(NameSeventeen) /\ m_rom = RomTen) => Strategies(1)[3] = NoEntry
        /\ (CatalogOf(NameEighteen) /\ m_rom = RomEleven) =>
              Strategies(1)[3].original_name = NameEighteen
        /\ (CatalogOf(NameEighteen) /\ m_rom = RomThirteen) => Strategies(1)[3] = NoEntry
        /\ (CatalogOf(NameGood) /\ m_rom = RomGo) => Strategies(1)[3] = NoEntry

\* the Matcher returned through strategy 3 on a pair at ratio 11/18
C13_AcceptedAboveThreshold ==
    /\ CatalogOf(NameEighteen)
    /\ m_rom = RomEleven
    /\ Returned1
    /\ m_result[1].strategy = 3
    /\ m_result[1].entry.original_name = NameEighteen

\* the Catalog Loader of the run has returned
Loaded1 == m_pc[1] # "load"

\* the Catalog Loader of the run has returned and nothing else has run
JustLoaded == m_pc[1] = "vary"

\* the names of the name list of the run
CanonicalNames == { m_catalog[1][2][i] : i \in DOMAIN m_catalog[1][2] }

\* C14: once the Catalog Loader has returned, the original_name of every
\* entry stored in the index is one of the names of the name list
C14_EntriesBacked ==
    Loaded1 =>
        \A j \in DOMAIN m_catalog[1][1] :
            m_catalog[1][1][j][2].original_name \in CanonicalNames

\* the loader returned an index with keys for a catalog of two games
C14_TwoGamesLoaded ==
    /\ Loaded1
    /\ Len(m_catalog[1][2]) = 2
    /\ \E j \in DOMAIN m_catalog[1][1] : m_catalog[1][1][j][2].original_name = m_catalog[1][2][1]
    /\ \E j \in DOMAIN m_catalog[1][1] : m_catalog[1][1][j][2].original_name = m_catalog[1][2][2]

\* the games of the catalog file that the loader does not skip
NamedGames ==
    IF xml_source.ok
    THEN { g \in DOMAIN xml_source.games :
             GameName(xml_source.games[g]) # None /\ GameName(xml_source.games[g]) # << >> }
    ELSE {}

\* the members of a variation list that the loader writes as keys: those of
\* the first fifty places that are longer than one character
KeysOf(variations) ==
    { variations[n] : n \in { i \in DOMAIN variations :
                                i <= 50 /\ Len(Strip(variations[i])) > 1 } }

\* the keys that the loader writes for game g
RetainedKeys(g) == KeysOf(GameVariations(xml_source.games[g], m_seed[1]))

\* the games that write the key
Writers(key) == { g \in NamedGames : key \in RetainedKeys(g) }

\* C15: after loading, the keys of the index are the retained variations of
\* the records, and each key maps to the entry of the last record in source
\* order that has it among its retained variations (its only record when
\* the key does not collide)
C15_LastRecordWins ==
    JustLoaded =>
        /\ CatalogKeys = UNION { RetainedKeys(g) : g \in NamedGames }
        /\ \A g \in NamedGames : \A key \in RetainedKeys(g) :
              (\A later \in NamedGames : later > g => key \notin RetainedKeys(later))
                  => MetaGet(m_catalog[1][1], key) = GameEntry(xml_source.games[g])

\* "abcd" is written by the record "ab-cd" and then by the record "abcd",
\* and maps to the second
C15_CollisionLoaded ==
    /\ JustLoaded
    /\ xml_source.ok
    /\ Len(xml_source.games) = 2
    /\ xml_source.games[1].attr_name = NameAbDashCd
    /\ Writers(NameAbcd) = { 1, 2 }
    /\ Writers(NameAbDashCd) = { 1 }
    /\ MetaGet(m_catalog[1][1], NameAbcd).original_name = NameAbcd
    /\ MetaGet(m_catalog[1][1], NameAbDashCd).original_name = NameAbDashCd

\* the entries of the index of the run that carry the name
KeysNamed(name) ==
    { j \in DOMAIN m_catalog[1][1] : m_catalog[1][1][j][2].original_name = name }

\* the tag-stripped name is there and is not the name itself
HasCleanName(name, clean) == clean # << >> /\ clean # name

\* what holds of one record, given its name, its tag-stripped name, its
\* variation list and the keys the loader writes for it
CapAndPriority(name, clean, variations, keys) ==
    /\ Cardinality(keys) <= 50
    /\ Cardinality(KeysNamed(name)) <= 50
    /\ HasCleanName(name, clean) =>
          /\ variations[1] = clean
          /\ variations[2] = Lower(clean)
    /\ (HasCleanName(name, clean) /\ Len(clean) >= 2) =>
          /\ { clean, Lower(clean) } \subseteq keys
          /\ { clean, Lower(clean) } \subseteq CatalogKeys
    /\ Len(clean) < 2 => clean \notin CatalogKeys

\* the same with the tag-stripped name held to be stored whenever it is not
\* the name
CapAndPriorityAlways(name, clean, variations, keys) ==
    /\ Cardinality(keys) <= 50
    /\ clean # name =>
          /\ Len(variations) >= 2
          /\ variations[1] = clean
          /\ variations[2] = Lower(clean)
          /\ { clean, Lower(clean) } \subseteq keys

\* C16: the loader writes at most 50 keys for a record; when the
\* tag-stripped name is non-empty and differs from the name, it and its
\* lowercase form are the first two members of the variation list, and they
\* are among the keys written for the record exactly when the tag-stripped
\* name has two characters or more (a one-character name is never a key)
C16_CapAndCleanNameFirst ==
    JustLoaded =>
        \A g \in NamedGames :
            CapAndPriority(Strip(GameName(xml_source.games[g])),
                           StripRegions(Strip(GameName(xml_source.games[g])), 1),
                           GameVariations(xml_source.games[g], m_seed[1]),
                           RetainedKeys(g))

\* C16 as the claim words it: the tag-stripped name and its lowercase form
\* are in the first two places and stored whenever the tag-stripped name
\* differs from the name
C16_CleanNameAlwaysStored ==
    JustLoaded =>
        \A g \in NamedGames :
            CapAndPriorityAlways(Strip(GameName(xml_source.games[g])),
                                 StripRegions(Strip(GameName(xml_source.games[g])), 1),
                                 GameVariations(xml_source.games[g], m_seed[1]),
                                 RetainedKeys(g))

\* a record with more than fifty variations was cut to fifty keys, its
\* tag-stripped name and the lowercase of it among them
C16_CutToFifty ==
    /\ JustLoaded
    /\ CatalogOf(NameManyVariations)
    /\ Len(m_catalog[1][1]) = 50
    /\ m_catalog[1][1][1][1] = << "a", "&", "b", "_", "V" >>
    /\ m_catalog[1][1][2][1] = << "a", "&", "b", "_", "v" >>

\* what the claim says of an entry stored for a record with that genre field
GenreAsSpecified(entry, field) ==
    /\ entry.genre # << >>
    /\ (field = None \/ Strip(field) = << >>) => entry.genre = Unknown
    /\ (field # None /\ Strip(field) # << >>) =>
          /\ entry.genre = Strip(BeforeSlash(Strip(field)))
          /\ entry.full_genre = Strip(field)

\* C17: every entry stored for a record has genre "Unknown" when the genre
\* field of the record is absent, empty or only whitespace, and otherwise
\* the first slash-separated segment of the field with full_genre the whole
\* field; the stored genre is never the empty string
C17_GenreNeverEmpty ==
    JustLoaded =>
        \A g \in NamedGames :
            \A j \in KeysNamed(Strip(GameName(xml_source.games[g]))) :
                GenreAsSpecified(m_catalog[1][1][j][2], xml_source.games[g].genre_text)

\* the destination files that hold a ROM or part of one
CopiedFiles ==
    { d \in DOMAIN dest_files : dest_files[d].kind \in { "rom", "partial" } }

\* C18: when the catalog file does not parse, the loader returns an empty
\* index and an empty name list without raising, and organize_roms_by_genre
\* then returns before the matching phase: the ROM folder is not searched,
\* no matching task is started, no result is produced and nothing is copied
C18_ParseFailureAborts ==
    (~xml_source.ok /\ pc # "parse") =>
        /\ pc = "exit"
        /\ rom_metadata = << >>
        /\ xml_names = << >>
        /\ rom_files = << >>
        /\ rom_batches = << >>
        /\ task = << >>
        /\ all_results = << >>
        /\ copy_log = << >>
        /\ CopiedFiles = {}

\* the operation has returned after a parse failure with ROMs in the folder
C18_AbortedWithRoms ==
    /\ ~xml_source.ok
    /\ pc = "exit"
    /\ top_names # << >>

\* the results of the running call that have gone through the loop
LoggedIndexes == { copy_log[k].index : k \in Attempts(run, CopyOutcomes \cup { "skip" }) }

\* C19: a copy that fails is logged and the loop goes on: every result up to
\* the position of the loop is counted in the statistics and has its line in
\* the log, whatever became of the copies before it, a result is skipped
\* only over a file that is there, the call returns only when every result
\* has been through the loop, and the only thing that ends the call early is
\* the genre folder that cannot be made, never a copy
C19_CopyFailureGoesOn ==
    /\ pc \in { "copy", "copied", "crashed" }
    /\ LoggedIndexes = 1..copy_i
    /\ stats.matched + stats.unmatched = copy_i + (IF pc = "crashed" THEN 1 ELSE 0)
    /\ \A k \in Attempts(run, { "skip" }) : copy_log[k].destination \in DOMAIN dest_files
    /\ pc = "copied" => copy_i = Len(all_results)
    /\ pc = "crashed" =>
          /\ copy_i < Len(all_results)
          /\ CleanGenre(CurrentResult) \in root_files

\* the first copy of a call failed, the second was made, and the call returned
C19_ReturnedAfterFailure ==
    /\ pc = "copied"
    /\ run = 1
    /\ Len(all_results) = 2
    /\ Len(copy_log) = 2
    /\ copy_log[1].did = "fail"
    /\ copy_log[2].did = "ok"
    /\ stats.matched + stats.unmatched = 2

\* the ROM file that the line of the copy log is about
LoggedRom(k) == all_results[copy_log[k].index].rom_file

\* C20: within one invocation of the organize operation, at most one copy is
\* attempted for each ROM file: no two lines of the copy log that stand for
\* a call of shutil.copy2 are about the same ROM file
C20_OneAttemptPerRom ==
    \A k1, k2 \in Attempts(1, CopyOutcomes) : LoggedRom(k1) = LoggedRom(k2) => k1 = k2

(***************************************************************************)
(* organize_roms_by_genre from its first line, with what can go wrong      *)
(* around the matching and the copying: a report file that cannot be       *)
(* written, a batch task that raises.                                      *)
(***************************************************************************)
ReportOutcomes ==
    [ rom_analysis : BOOLEAN, xml_games : BOOLEAN, matching_results : BOOLEAN ]

InitFaults ==
    /\ report_ok \in ReportOutcomes
    /\ IdleMain
    /\ IdleExtras
    /\ hash_seed = 0
    /\ xml_source \in XmlSources
    /\ top_names \in TopListings
    /\ sub_names \in SubListings
    /\ max_workers \in 1..MaxWorkers
    /\ pc = "analyze"
    /\ IdleMatching
    /\ all_results = << >>
    /\ IdleCopier
    /\ root_files = {}
    /\ dest_files = << >>
    /\ IdleGenerator
    /\ IdleMatcher

\* analyze_rom_collection: the dump of rom_analysis.json has no handler
Analyze ==
    /\ pc = "analyze"
    /\ pc' = IF report_ok.rom_analysis THEN "parse" ELSE "crashed"
    /\ UNCHANGED << input_vars, match_vars, copy_vars, gen_vars, m_vars >>

\* process_rom_batch_matching_only raises: the future holds the exception
RaiseTask(b) ==
    /\ task[b].state = "running"
    /\ task' = [ task EXCEPT ![b].state = "raised" ]
    /\ UNCHANGED << input_vars, pc, rom_metadata, xml_names, rom_files, rom_batches,
                    next_submit, collected, all_results, processed_count, copy_vars,
                    gen_vars, m_vars >>

\* one round of the as_completed loop for a future whose result() raises:
\* the handler prints and the loop goes on
CollectRaised(b) ==
    /\ pc = "collect"
    /\ task[b].state = "raised"
    /\ b \notin collected
    /\ collected' = collected \cup { b }
    /\ UNCHANGED << input_vars, pc, rom_metadata, xml_names, rom_files, rom_batches,
                    next_submit, task, all_results, processed_count, copy_vars,
                    gen_vars, m_vars >>

NextFaults ==
    \/ Analyze
    \/ Next
    \/ \E b \in DOMAIN task : RaiseTask(b)
    \/ \E b \in DOMAIN task : CollectRaised(b)

SpecFaults == InitFaults /\ [][NextFaults]_vars

\* the call of organize_roms_by_genre has ended, by return or by exception
Rested == pc \in { "done", "exit", "crashed" }

\* the catalog parses and has games, there are ROM files, and no batch raised
HealthyInputs ==
    /\ xml_source.ok
    /\ xml_source.games # << >>
    /\ FindRomFiles(top_names, sub_names, 1) # << >>
    /\ \A b \in DOMAIN task : task[b].state # "raised"

\* C21: a report file that cannot be written (rom_analysis.json,
\* xml_games.txt or matching_results.txt) does not keep the ROMs from being
\* copied: whatever the report files do, a call on a catalog with games and
\* a folder with ROMs ends with every result taken through the copy loop,
\* and the files the loop copied are in the genre folders
C21_ReportFailureHarmless ==
    (Rested /\ HealthyInputs) =>
        /\ Len(copy_log) = Len(FindRomFiles(top_names, sub_names, 1))
        /\ \A k \in Attempts(1, { "ok" }) :
              /\ copy_log[k].destination \in DOMAIN dest_files
              /\ dest_files[copy_log[k].destination].kind = "rom"

(***************************************************************************)
(* main(): the choice of the catalog file and of the worker count, up to   *)
(* the call of organize_roms_by_genre.                                     *)
(***************************************************************************)
DigitValue(c) ==
    CHOOSE n \in 0..9 : << "0", "1", "2", "3", "4", "5", "6", "7", "8", "9" >>[n + 1] = c

RECURSIVE DecimalValue(_)
DecimalValue(digits) ==
    IF digits = << >> THEN 0
    ELSE 10 * DecimalValue(SubSeq(digits, 1, Len(digits) - 1))
         + DigitValue(digits[Len(digits)])

\* int(text): blanks around, an optional sign, decimal digits; anything
\* else is a ValueError
ParseInt(text) ==
    LET t == Strip(text)
        signed == t # << >> /\ t[1] \in { "+", "-" }
        digits == IF signed THEN Tail(t) ELSE t
    IN  IF digits # << >> /\ \A i \in DOMAIN digits : digits[i] \in Digits
        THEN [ ok |-> TRUE,
               value |-> IF signed /\ t[1] = "-" THEN 0 - DecimalValue(digits)
                         ELSE DecimalValue(digits) ]
        ELSE [ ok |-> FALSE, value |-> 0 ]

\* xml_files[choice] does not raise IndexError
ValidIndex(files, choice) == 0 - Len(files) <= choice /\ choice < Len(files)

\* xml_files[choice], a negative index counting from the end
ItemAt(files, choice) == IF choice >= 0 THEN files[choice + 1] ELSE files[Len(files) + choice + 1]

\* min(8, os.cpu_count() or 4)
DefaultWorkers(cpus) ==
    LET known == IF cpus = 0 THEN 4 ELSE cpus
    IN  IF known < 8 THEN known ELSE 8

\* a worker count taken as typed
Unclamped(n) == n

\* max(1, min(max_workers, 16))
ClampWorkers(n) ==
    LET capped == IF n < 16 THEN n ELSE 16
    IN  IF capped > 1 THEN capped ELSE 1

\* the value of max_workers after the try of lines 805-809
ChosenWorkers(text, cpus) ==
    IF Strip(text) = << >> THEN ClampWorkers(DefaultWorkers(cpus))
    ELSE IF ParseInt(Strip(text)).ok THEN ClampWorkers(ParseInt(Strip(text)).value)
    ELSE DefaultWorkers(cpus)

XmlListings ==
    { << >>, << << "a", ".", "x", "m", "l" >> >>, << << "a", ".", "x", "m", "l" >>, << "b", ".", "x", "m", "l" >> >>,
      << << "a", ".", "x", "m", "l" >>, << "b", ".", "x", "m", "l" >>, << "c", ".", "x", "m", "l" >> >> }

ChoiceInputs ==
    { << >>, << "a", "b", "c" >>, << "0" >>, << "-", "1" >>, << "-", "4" >>, << "1" >>, << "2" >>, << " ", "3", " " >>, << "4" >>, << "2", ".", "0" >> }

WorkerInputs ==
    { << >>, << " ", " " >>, << "a", "b", "c" >>, << "2", ".", "5" >>, << "0" >>, << "-", "3" >>, << "1" >>, << " ", "4" >>, << "+", "1", "2" >>,
      << "1", "6" >>, << "1", "7" >>, << "1", "0", "0", "0" >> }

CpuCounts == { 0, 1, 2, 4, 8, 12, 64 }

InitMain ==
    /\ report_ok = ReportsWritable
    /\ main_pc = "select"
    /\ xml_files \in XmlListings
    /\ choice_input \in ChoiceInputs
    /\ workers_input \in WorkerInputs
    /\ cpu_count \in CpuCounts
    /\ xml_path = None
    /\ IdleExtras
    /\ hash_seed = 0
    /\ xml_source = [ ok |-> FALSE, games |-> << >> ]
    /\ top_names = << >>
    /\ sub_names = << >>
    /\ max_workers = 0
    /\ pc = "idle"
    /\ IdleMatching
    /\ all_results = << >>
    /\ IdleCopier
    /\ root_files = {}
    /\ dest_files = << >>
    /\ IdleGenerator
    /\ IdleMatcher

main_unchanged ==
    << report_ok, xml_files, choice_input, workers_input, cpu_count, hash_seed, xml_source,
       top_names, sub_names, pc, match_vars, copy_vars, gen_vars, m_vars, extra_vars >>

\* lines 773-792: no XML file, one, or the user's choice among several
SelectXml ==
    /\ main_pc = "select"
    /\ IF xml_files = << >>
       THEN main_pc' = "returned" /\ xml_path' = xml_path
       ELSE IF Len(xml_files) = 1
       THEN main_pc' = "workers" /\ xml_path' = xml_files[1]
       ELSE IF ParseInt(choice_input).ok
               /\ ValidIndex(xml_files, ParseInt(choice_input).value - 1)
       THEN /\ main_pc' = "workers"
            /\ xml_path' = ItemAt(xml_files, ParseInt(choice_input).value - 1)
       ELSE \* ValueError or IndexError: "Invalid selection. Exiting."
            main_pc' = "returned" /\ xml_path' = xml_path
    /\ UNCHANGED << main_unchanged, max_workers >>

\* lines 800-820: the worker count, then organize_roms_by_genre is called
CallOrganize ==
    /\ main_pc = "workers"
    /\ max_workers' = ChosenWorkers(workers_input, cpu_count)
    /\ main_pc' = "called"
    /\ UNCHANGED << main_unchanged, xml_path >>

NextMain ==
    \/ SelectXml
    \/ CallOrganize

SpecMain == InitMain /\ [][NextMain]_vars

\* the user had to choose and typed something that is not the number of a
\* listed file
InvalidChoice ==
    /\ Len(xml_files) > 1
    /\ ~(ParseInt(choice_input).ok /\ ParseInt(choice_input).value \in 1..Len(xml_files))

\* the worker count typed is not a number
InvalidWorkers == Strip(workers_input) # << >> /\ ~ParseInt(workers_input).ok

\* C22: in main(), invalid input falls back to a default instead of ending
\* the program: with at least one catalog file in the directory main() never
\* returns without calling organize_roms_by_genre, an invalid selection
\* (not a number, zero, negative, out of range) leaves a listed file chosen,
\* and a worker count that is not a number gives the default count
C22_InvalidInputFallsBack ==
    /\ (main_pc = "returned") => xml_files = << >>
    /\ (main_pc \in { "workers", "called" } /\ InvalidChoice) =>
          \E i \in DOMAIN xml_files : xml_path = xml_files[i]
    /\ (main_pc = "called" /\ InvalidWorkers) => max_workers = DefaultWorkers(cpu_count)

\* the worker count typed, when it is a number
TypedWorkers == ParseInt(workers_input).value

\* C23: whatever is typed for the worker count (nothing, no number, zero, a
\* negative or a huge number), organize_roms_by_genre is called with a count
\* between 1 and 16: the number typed when it lies in 1..16, the nearer end
\* of the range when it does not, and min(8, CPU count) when nothing or no
\* number is typed (with 4 for a CPU count that is not known)
C23_WorkersClamped ==
    main_pc = "called" =>
        /\ max_workers \in 1..16
        /\ (Strip(workers_input) = << >> \/ ~ParseInt(workers_input).ok) =>
              /\ cpu_count \in 1..8 => max_workers = cpu_count
              /\ cpu_count > 8 => max_workers = 8
              /\ cpu_count = 0 => max_workers = 4
        /\ (Strip(workers_input) # << >> /\ ParseInt(workers_input).ok) =>
              /\ TypedWorkers \in 1..16 => max_workers = TypedWorkers
              /\ TypedWorkers < 1 => max_workers = 1
              /\ TypedWorkers > 16 => max_workers = 16

\* organize_roms_by_genre was called with 16 workers after 1000 was typed
C23_HugeCountCapped ==
    /\ main_pc = "called"
    /\ TypedWorkers = 1000
    /\ max_workers = 16

\* what strategy 4 looks at: the first 15 variations of the stem and the
\* first 300 names of the name list
SimVariations == SubSeq(m_variations[1], 1, IF Len(m_variations[1]) < 15
                                            THEN Len(m_variations[1]) ELSE 15)

SimNames == SubSeq(m_catalog[1][2], 1, IF Len(m_catalog[1][2]) < 300
                                       THEN Len(m_catalog[1][2]) ELSE 300)

\* the pairs << place of the variation, place of the name >>
SimPairs == (DOMAIN SimVariations) \X (DOMAIN SimNames)

\* the scores of the pairs
SimScores == [ p \in SimPairs |-> similarity(SimVariations[p[1]], SimNames[p[2]]) ]

\* pair p comes before pair q in the two loops
Earlier(p, q) == p[1] < q[1] \/ (p[1] = q[1] /\ p[2] < q[2])

\* the pairs that no pair beats and no earlier pair equals, given the scores
TopPairs(scores) ==
    { p \in DOMAIN scores :
        \A q \in DOMAIN scores :
            /\ scores[q][1] * scores[p][2] <= scores[p][1] * scores[q][2]
            /\ (scores[q][1] * scores[p][2] = scores[p][1] * scores[q][2])
                  => ~Earlier(q, p) }

\* the places of the index whose entry carries the name
EntriesNamed(name) ==
    { j \in DOMAIN m_catalog[1][1] : m_catalog[1][1][j][2].original_name = name }

\* strategy 4 as the claim words it, given the scores: the pair on top wins,
\* and at 0.70 or more the entry of its name is returned
TopPairReturned(scores) ==
    \A p \in TopPairs(scores) :
        10 * scores[p][1] >= 7 * scores[p][2] =>
            /\ m_result[1].entry # NoEntry
            /\ m_result[1].entry.original_name = SimNames[p[2]]

\* the same, with the case of a name that has no entry left in the index
TopPairOrNothing(scores) ==
    /\ TopPairs(scores) = {} => Strategies(1)[4] = NoEntry
    /\ \A p \in TopPairs(scores) :
          IF 10 * scores[p][1] >= 7 * scores[p][2] /\ EntriesNamed(SimNames[p[2]]) # {}
          THEN Strategies(1)[4] =
                   m_catalog[1][1][SetMin(EntriesNamed(SimNames[p[2]]))][2]
          ELSE Strategies(1)[4] = NoEntry

\* strategies 1 to 3 found nothing for the stem
ReachedSimilarity == \A k \in 1..3 : Strategies(1)[k] = NoEntry

\* C24: strategy 4 takes, over the first 15 variations and the first 300
\* names, the pair with the highest score, the first one met among equals;
\* when that score is 0.70 or more and the index still holds an entry whose
\* original_name is the name of the pair, it returns the first such entry
\* of the index, and the Matcher returns it when strategies 1 to 3 found
\* nothing; when the score is lower, or when no entry carries that name
\* (every key of the record was overwritten by a later record), strategy 4
\* returns nothing
C24_BestPairOrNothing ==
    Done(1) =>
        /\ TopPairOrNothing(SimScores)
        /\ (ReachedSimilarity /\ Strategies(1)[4] # NoEntry) =>
              m_result[1] = [ strategy |-> 4, entry |-> Strategies(1)[4] ]

\* C24 as the claim words it: whenever strategy 4 is reached and the best
\* score is 0.70 or more, the Matcher returns an entry whose original_name is
\* the best-matching name
C24_BestPairReturned ==
    (Done(1) /\ ReachedSimilarity) => TopPairReturned(SimScores)

\* two names tie at 0.75 against the stem "abzd" and the Matcher returned the
\* entry of the first through strategy 4
C24_TieFirstWins ==
    /\ Done(1)
    /\ m_rom = RomAbzd
    /\ Cardinality({ p \in SimPairs : SimScores[p] = << 6, 8 >> }) = 2
    /\ m_result[1].strategy = 4
    /\ m_result[1].entry.original_name = NameAbxd

(***************************************************************************)
(* The destination name of one ROM file under a configured                 *)
(* TRIM_FILENAME_LENGTH (copy_roms_sequentially, lines 566-569).  The file *)
(* was listed by glob("**/*" + ext), so its name ends with an extension of *)
(* ROM_EXTENSIONS.                                                         *)
(***************************************************************************)
MaxStemLen == 3

MaxTrim == 6

StemChars == { "a", " ", ".", "?" }

RECURSIVE StemsOf(_)
StemsOf(n) ==
    IF n = 0 THEN { << >> }
    ELSE StemsOf(n - 1) \cup { s \o << c >> : s \in StemsOf(n - 1), c \in StemChars }

RomNames == { s \o ROM_EXTENSIONS[e] : s \in StemsOf(MaxStemLen), e \in DOMAIN ROM_EXTENSIONS }

InitName ==
    /\ report_ok = ReportsWritable
    /\ IdleMain
    /\ hash_seed = 0
    /\ xml_source = [ ok |-> FALSE, games |-> << >> ]
    /\ top_names = << >>
    /\ sub_names = << >>
    /\ max_workers = 0
    /\ pc = "idle"
    /\ IdleMatching
    /\ all_results = << >>
    /\ IdleCopier
    /\ root_files = {}
    /\ dest_files = << >>
    /\ IdleGenerator
    /\ IdleMatcher
    /\ trim_length \in 0..MaxTrim
    /\ name_input \in RomNames
    /\ name_output = << >>
    /\ name_pc = "source"
    /\ IdleScanning
    /\ IdleOrganizer

\* lines 566-569
NameDestination ==
    /\ name_pc = "source"
    /\ name_output' = TrimmedName(name_input, trim_length)
    /\ name_pc' = "named"
    /\ UNCHANGED << trim_length, name_input, report_ok, main_pc, xml_files, choice_input,
                    workers_input, cpu_count, xml_path, hash_seed, xml_source, top_names,
                    sub_names, max_workers, pc, match_vars, copy_vars, gen_vars, m_vars,
                    scan_vars, org_vars >>

NextName == NameDestination

SpecName == InitName /\ [][NextName]_vars

\* pathlib: PurePath.suffix of a file name
Suffix(name) == SubSeq(name, Len(Stem(name)) + 1, Len(name))

\* C25: with a maximum length configured the destination name is at most
\* that long and ends with the extension of the source name, whatever the
\* name, an extension as long as the maximum or longer included; with no
\* maximum configured the destination name is the source name unchanged
C25_WithinMaxLength ==
    name_pc = "named" =>
        IF trim_length # 0
        THEN /\ Len(name_output) <= trim_length
             /\ EndsWith(name_output, Suffix(name_input))
        ELSE name_output = name_input

RECURSIVE GenreTotal(_, _)
\* the sum of the counters of the genres in the set
GenreTotal(genres, names) ==
    IF names = {} THEN 0
    ELSE LET g == CHOOSE n \in names : TRUE
         IN  genres[g] + GenreTotal(genres, names \ { g })

\* the run went through the copy phase and set the total
RunEnded == pc = "done" /\ "total_roms" \in DOMAIN stats

\* C26: at the end of every run that reached the copy phase, the matched
\* and the unmatched counters add up to total_roms, and so do the counters
\* of the genres, when copies were skipped or failed and when a batch task
\* raised as well
C26_CountersAddUp ==
    RunEnded =>
        /\ stats.matched + stats.unmatched = stats.total_roms
        /\ GenreTotal(stats.genres, DOMAIN stats.genres) = stats.total_roms

\* the ROM files under the ROM root: the names of the two listings that end
\* with an extension of ROM_EXTENSIONS
RomsUnderRoot ==
    { [ dir |-> "top", name |-> top_names[i] ] :
        i \in { k \in DOMAIN top_names :
                  \E e \in DOMAIN ROM_EXTENSIONS : EndsWith(top_names[k], ROM_EXTENSIONS[e]) } }
    \cup
    { [ dir |-> "sub", name |-> sub_names[i] ] :
        i \in { k \in DOMAIN sub_names :
                  \E e \in DOMAIN ROM_EXTENSIONS : EndsWith(sub_names[k], ROM_EXTENSIONS[e]) } }

\* how many results are about the ROM file
ResultsOf(rom_file) ==
    Cardinality({ k \in DOMAIN all_results : all_results[k].rom_file = rom_file })

\* C27: every ROM file under the ROM root is in the ROM file list exactly
\* once, gets exactly one result, and is counted once in the statistics
C27_EachRomOnce ==
    /\ pc \in { "submit", "collect", "copy", "copied", "done" } =>
          \A f \in RomsUnderRoot : Count(rom_files, f) = 1
    /\ pc \in { "copy", "copied", "done" } =>
          \A f \in RomsUnderRoot : ResultsOf(f) = 1
    /\ pc \in { "copied", "done" } =>
          stats.matched + stats.unmatched = Cardinality(RomsUnderRoot)

\* the destination root held nothing when the copier was called: no plain
\* file, and no file in a genre folder that the copier did not write
StartedEmpty ==
    /\ root_files = {}
    /\ \A d \in DOMAIN dest_files : dest_files[d].kind # "old"

\* the result has a copy of its ROM in its genre folder
HasCopy(result) ==
    \E d \in DOMAIN dest_files :
        /\ d[1] = CleanGenre(result)
        /\ dest_files[d] = RomContent(result.rom_file)

\* C28: after copy_roms_sequentially returned from a call on an empty
\* destination in which no copy failed, every ROM of the list has a copy in
\* its genre folder, two ROMs of one genre with the same file name in
\* different source folders included
C28_EveryRomHasCopy ==
    ( /\ pc = "copied"
      /\ run = 1
      /\ StartedEmpty
      /\ Attempts(1, { "fail", "partial" }) = {} ) =>
        \A k \in DOMAIN all_results : HasCopy(all_results[k])

(***************************************************************************)
(* rom_scanner.py: scan_roms, find_duplicates and move_duplicates as the   *)
(* script runs them.  A file of the ROM directory is [sha1, readable]: the *)
(* hash of its content, and whether stat and open succeed on it.           *)
(***************************************************************************)
ScanPaths ==
    { [ dir |-> "top", name |-> RomAbCd ],
      [ dir |-> "sub", name |-> RomAbCd ],
      [ dir |-> "top", name |-> RomZed ],
      [ dir |-> "sub", name |-> RomQq ] }

Hashes == { "h1", "h2" }

ScanFiles == [ sha1 : Hashes, readable : BOOLEAN ]

\* the ROM directories the scan may find
ScanTrees == UNION { [ paths -> ScanFiles ] : paths \in SUBSET ScanPaths }

\* scan_file: the record of a file, or the error record when stat or the
\* hashing raises
scan_file(file_path, file) ==
    IF file.readable
    THEN [ name |-> file_path.name, path |-> file_path, sha1 |-> file.sha1 ]
    ELSE [ error |-> "error", path |-> file_path ]

\* rom.get("sha1")
GetSha1(rom) == IF "sha1" \in DOMAIN rom THEN rom.sha1 ELSE "None"

RECURSIVE FindDuplicatesFrom(_, _, _, _)
\* the loop of find_duplicates from record k on
FindDuplicatesFrom(data, k, seen, duplicates) ==
    IF k > Len(data) THEN duplicates
    ELSE IF GetSha1(data[k]) \in DOMAIN seen
         THEN FindDuplicatesFrom(data, k + 1, seen,
                                 Append(duplicates, << seen[GetSha1(data[k])], data[k] >>))
         ELSE FindDuplicatesFrom(data, k + 1, (GetSha1(data[k]) :> data[k]) @@ seen,
                                 duplicates)

find_duplicates(data) == FindDuplicatesFrom(data, 1, << >>, << >>)

InitScan ==
    /\ report_ok = ReportsWritable
    /\ IdleMain
    /\ IdleNaming
    /\ IdleOrganizer
    /\ hash_seed = 0
    /\ xml_source = [ ok |-> FALSE, games |-> << >> ]
    /\ top_names = << >>
    /\ sub_names = << >>
    /\ max_workers = 0
    /\ pc = "idle"
    /\ IdleMatching
    /\ all_results = << >>
    /\ IdleCopier
    /\ root_files = {}
    /\ dest_files = << >>
    /\ IdleGenerator
    /\ IdleMatcher
    /\ scan_fs \in ScanTrees
    /\ scan_todo = DOMAIN scan_fs
    /\ rom_data = << >>
    /\ scan_pc = "scan"
    /\ dupes = << >>
    /\ move_i = 0
    /\ dup_folder = << >>
    /\ move_log = << >>

scan_unchanged ==
    << report_ok, main_pc, xml_files, choice_input, workers_input, cpu_count, xml_path,
       name_vars, org_vars, hash_seed, xml_source, top_names, sub_names, max_workers, pc,
       match_vars, copy_vars, gen_vars, m_vars >>

\* scan_roms: one round of the as_completed loop; the futures complete in
\* any order
CollectScan(f) ==
    /\ scan_pc = "scan"
    /\ f \in scan_todo
    /\ rom_data' = Append(rom_data, scan_file(f, scan_fs[f]))
    /\ scan_todo' = scan_todo \ { f }
    /\ UNCHANGED << scan_fs, scan_pc, dupes, move_i, dup_folder, move_log, scan_unchanged >>

\* the script after scan_roms returned: dupes = find_duplicates(rom_metadata)
FindDuplicates ==
    /\ scan_pc = "scan"
    /\ scan_todo = {}
    /\ dupes' = find_duplicates(rom_data)
    /\ scan_pc' = "move"
    /\ UNCHANGED << scan_fs, scan_todo, rom_data, move_i, dup_folder, move_log, scan_unchanged >>

\* one round of the loop of move_duplicates: shutil.move puts the file under
\* its name into output/duplicates, or raises and the handler prints
MoveDuplicate ==
    /\ scan_pc = "move"
    /\ move_i < Len(dupes)
    /\ move_i' = move_i + 1
    /\ \E outcome \in { "ok", "fail" } :
          /\ outcome = "ok" => dupes[move_i + 1][2].path \in DOMAIN scan_fs
          /\ move_log' = Append(move_log, [ pair |-> dupes[move_i + 1], did |-> outcome ])
          /\ IF outcome = "ok"
             THEN /\ scan_fs' = [ q \in DOMAIN scan_fs \ { dupes[move_i + 1][2].path } |->
                                    scan_fs[q] ]
                  /\ dup_folder' = (dupes[move_i + 1][2].path.name :>
                                        scan_fs[dupes[move_i + 1][2].path]) @@ dup_folder
             ELSE UNCHANGED << scan_fs, dup_folder >>
    /\ UNCHANGED << scan_todo, rom_data, scan_pc, dupes, scan_unchanged >>

\* move_duplicates returns
MovesDone ==
    /\ scan_pc = "move"
    /\ move_i = Len(dupes)
    /\ scan_pc' = "done"
    /\ UNCHANGED << scan_fs, scan_todo, rom_data, dupes, move_i, dup_folder, move_log,
                    scan_unchanged >>

NextScan ==
    \/ \E f \in ScanPaths : CollectScan(f)
    \/ FindDuplicates
    \/ MoveDuplicate
    \/ MovesDone

SpecScan == InitScan /\ [][NextScan]_vars

\* the record is an error record
IsErrorRecord(rom) == "error" \in DOMAIN rom

\* a record of rom_data before record k has the hash and its file is in place
EarlierStays(rom) ==
    \E j, k \in DOMAIN rom_data :
        /\ j < k
        /\ rom_data[k] = rom
        /\ ~IsErrorRecord(rom_data[j])
        /\ rom_data[j].sha1 = rom.sha1
        /\ rom_data[j].path \in DOMAIN scan_fs

\* C29: a file whose stat or hashing fails gives an error record and the
\* scan goes on to a record per file; a file is moved only if an earlier
\* record with the same hash stays in place; error records are never paired
\* as duplicates and their files are never moved
C29_OnlyTrueDuplicatesMoved ==
    /\ scan_pc \in { "move", "done" } =>
          /\ { rom_data[k].path : k \in DOMAIN rom_data } = DOMAIN scan_fs
                 \cup { move_log[k].pair[2].path : k \in DOMAIN move_log }
          /\ \A k \in DOMAIN dupes :
                ~IsErrorRecord(dupes[k][1]) /\ ~IsErrorRecord(dupes[k][2])
          /\ \A k \in DOMAIN move_log :
                move_log[k].did = "ok" =>
                    /\ ~IsErrorRecord(move_log[k].pair[2])
                    /\ EarlierStays(move_log[k].pair[2])

(***************************************************************************)
(* rom_organizer.py: the loop that copies the ROMs of the metadata file    *)
(* into letter folders under the configured max_files_per_folder.          *)
(***************************************************************************)
MaxLimit == 2

MaxRecords == 3

RomOne == << "1", ".", "n", "e", "s" >>

\* the records of the metadata file: ROMs with their hash, a record whose
\* sha1 is not a 40-character hash, an error record
MetadataRecords ==
    { [ name |-> RomAbCd, path |-> [ dir |-> "top", name |-> RomAbCd ], sha1 |-> "h1" ],
      [ name |-> RomAbCd, path |-> [ dir |-> "sub", name |-> RomAbCd ], sha1 |-> "h2" ],
      [ name |-> RomAbzd, path |-> [ dir |-> "top", name |-> RomAbzd ], sha1 |-> "h1" ],
      [ name |-> RomZed, path |-> [ dir |-> "top", name |-> RomZed ], sha1 |-> "h2" ],
      [ name |-> RomOne, path |-> [ dir |-> "top", name |-> RomOne ], sha1 |-> "h1" ],
      [ name |-> RomQq, path |-> [ dir |-> "sub", name |-> RomQq ], sha1 |-> "" ],
      [ error |-> "error", path |-> [ dir |-> "sub", name |-> RomAbcde ] ] }

\* the metadata files: lists of records of different files
MetadataFiles ==
    { data \in UNION { [ 1..n -> MetadataRecords ] : n \in 0..MaxRecords } :
        \A j, k \in DOMAIN data : data[j].path = data[k].path => j = k }

\* what the output folder may hold before the run: nothing, or files of an
\* earlier run in the folder A (a run starts with no folder over the limit)
OutputTrees ==
    { << >>,
      (<< "A", RomAbcd >> :> OldContent),
      (<< "A", RomAbcd >> :> OldContent) @@ (<< "A", RomAbcdeg >> :> OldContent) }

\* the sha1 check of line 43: a 40-character hash
ValidSha1(sha1) == sha1 \in Hashes

\* clean_name
clean_name(name) ==
    LET n1 == IF REMOVE_SPECIAL_CHARS
              THEN SelectSeq(name,
                       LAMBDA c : c \in UpperSet \cup LowerSet \cup Digits
                                              \cup { " ", "_", "-", "." })
              ELSE name
        n2 == IF TRIM_FILENAME_LENGTH # 0 THEN SliceTo(n1, TRIM_FILENAME_LENGTH) ELSE n1
    IN  Strip(n2)

\* str.upper() of one character
UpperChar(c) ==
    IF c \in LowerSet
    THEN UpperChars[CHOOSE i \in 1..Len(LowerChars) : LowerChars[i] = c]
    ELSE c

\* folder_name: the first letter of the name in upper case, "_" otherwise
FolderName(rom_name) ==
    IF rom_name # << >> /\ UpperChar(rom_name[1]) \in UpperSet
    THEN UpperChar(rom_name[1])
    ELSE "_"

\* folder_file_counts.get(folder_name, 0)
FolderCount(counts, folder_name) ==
    IF folder_name \in DOMAIN counts THEN counts[folder_name] ELSE 0

\* the number of files the folder holds
FilesIn(files, folder_name) == Cardinality({ d \in DOMAIN files : d[1] = folder_name })

InitOrganizer ==
    /\ report_ok = ReportsWritable
    /\ IdleMain
    /\ IdleNaming
    /\ IdleScanning
    /\ hash_seed = 0
    /\ xml_source = [ ok |-> FALSE, games |-> << >> ]
    /\ top_names = << >>
    /\ sub_names = << >>
    /\ max_workers = 0
    /\ pc = "idle"
    /\ IdleMatching
    /\ all_results = << >>
    /\ IdleCopier
    /\ root_files = {}
    /\ dest_files = << >>
    /\ IdleGenerator
    /\ IdleMatcher
    /\ max_files_per_folder \in 1..MaxLimit
    /\ metadata \in MetadataFiles
    /\ org_i = 0
    /\ folder_file_counts = << >>
    /\ out_files \in { tree \in OutputTrees : FilesIn(tree, "A") <= max_files_per_folder }
    /\ copied_count = 0
    /\ skipped_count = 0
    /\ org_pc = "loop"
    /\ org_log = << >>

org_unchanged ==
    << report_ok, main_pc, xml_files, choice_input, workers_input, cpu_count, xml_path,
       name_vars, scan_vars, hash_seed, xml_source, top_names, sub_names, max_workers, pc,
       match_vars, copy_vars, gen_vars, m_vars >>

\* the record the loop is at
CurrentRom == metadata[org_i + 1]

\* the loop passes the record, adding to skipped_count or not
PassRecord(did, skipped) ==
    /\ org_log' = Append(org_log, [ index |-> org_i + 1, did |-> did ])
    /\ skipped_count' = skipped_count + skipped
    /\ UNCHANGED << folder_file_counts, out_files, copied_count >>

\* shutil.copy2 in its try, for a record that got through the checks
CopyRom(rom, rom_name, folder_name, count) ==
    \E outcome \in CopyOutcomes :
        /\ org_log' = Append(org_log, [ index |-> org_i + 1, did |-> outcome ])
        /\ out_files' =
               CASE outcome = "ok" ->
                        (<< folder_name, rom_name >> :> RomContent(rom.path)) @@ out_files
                 [] outcome = "partial" ->
                        (<< folder_name, rom_name >> :> PartialContent(rom.path)) @@ out_files
                 [] OTHER -> out_files
        /\ folder_file_counts' =
               IF outcome = "ok"
               THEN (folder_name :> count + 1) @@ folder_file_counts
               ELSE folder_file_counts
        /\ copied_count' = IF outcome = "ok" THEN copied_count + 1 ELSE copied_count
        /\ skipped_count' = skipped_count

\* one round of the loop over the metadata
OrganizeStep ==
    /\ org_pc = "loop"
    /\ org_i < Len(metadata)
    /\ org_i' = org_i + 1
    /\ IF "error" \in DOMAIN CurrentRom
       THEN PassRecord("error", 0)
       ELSE IF ~ValidSha1(CurrentRom.sha1)
       THEN PassRecord("nohash", 0)
       ELSE IF FolderCount(folder_file_counts, FolderName(clean_name(CurrentRom.name)))
                  >= max_files_per_folder
       THEN PassRecord("limit", 1)
       ELSE IF << FolderName(clean_name(CurrentRom.name)), clean_name(CurrentRom.name) >>
                  \in DOMAIN out_files
       THEN PassRecord("exists", 1)
       ELSE CopyRom(CurrentRom, clean_name(CurrentRom.name),
                    FolderName(clean_name(CurrentRom.name)),
                    FolderCount(folder_file_counts, FolderName(clean_name(CurrentRom.name))))
    /\ UNCHANGED << max_files_per_folder, metadata, org_pc, org_unchanged >>

\* the loop is over: the script prints the two counters
OrganizerDone ==
    /\ org_pc = "loop"
    /\ org_i = Len(metadata)
    /\ org_pc' = "done"
    /\ UNCHANGED << max_files_per_folder, metadata, org_i, folder_file_counts, out_files,
                    copied_count, skipped_count, org_log, org_unchanged >>

NextOrganizer == OrganizeStep \/ OrganizerDone

SpecOrganizer == InitOrganizer /\ [][NextOrganizer]_vars

\* the letter folders of the output
OutputFolders == { d[1] : d \in DOMAIN out_files }

\* C30: after a run of the alphabetical organizer no letter folder holds
\* more than max_files_per_folder files, whatever it held before the run,
\* and the ROMs that met a full folder were skipped and counted in
\* skipped_count
C30_FolderLimitKept ==
    org_pc = "done" =>
        /\ \A folder \in OutputFolders : FilesIn(out_files, folder) <= max_files_per_folder
        /\ skipped_count =
               Cardinality({ k \in DOMAIN org_log : org_log[k].did \in { "limit", "exists" } })
=============================================================================
